---- MODULE Spec2Model ----
(***************************************************************************)
(* Model of the SMS spam detector's evaluation / comparison pipeline       *)
(* (ModelEvaluator, the evaluate_baseline_only script) and of the          *)
(* dashboard that reads evaluation_results.json.                           *)
(*                                                                         *)
(* Python values are records [t |-> type, v |-> payload].  A float is held *)
(* as a whole number of hundredths (0.91 is 91); a dict is a function from *)
(* its keys to values; a list or ndarray is a sequence.                    *)
(***************************************************************************)
EXTENDS Integers, Sequences, FiniteSets, TLC

\* ------------------------------------------------------------------ bounds
MaxSamples == 2

\* evaluation.target_f1_score, in hundredths
TargetF1 == 95

\* values of evaluation.target_f1_score the configuration may hold
TargetValues == {91, TargetF1}

\* ------------------------------------------------------------ Python values
PyNone == [t |-> "None", v |-> 0]
PyFloat(x) == [t |-> "float", v |-> x]
NpFloat(x) == [t |-> "np.floating", v |-> x]
PyInt(n) == [t |-> "int", v |-> n]
NpInt(n) == [t |-> "np.integer", v |-> n]
PyBool(b) == [t |-> "bool", v |-> b]
NpBool(b) == [t |-> "np.bool_", v |-> b]
PyStr(s) == [t |-> "str", v |-> s]
PyList(items) == [t |-> "list", v |-> items]
PyDict(f) == [t |-> "dict", v |-> f]
EmptyDict == PyDict(<<>>)

IsNumpy(x) == x.t \in {"np.floating", "np.integer", "np.bool_"}

\* dict.get(key, default)
Get(d, key, default) == IF key \in DOMAIN d.v THEN d.v[key] ELSE default

\* truth value of a dict: `not d` is true of the empty dict only
Truthy(d) == DOMAIN d.v # {}

\* a - b on Python / numpy numbers: numpy operands give a numpy result
Minus(a, b) ==
  IF a.t = "np.floating" \/ b.t = "np.floating" THEN NpFloat(a.v - b.v)
  ELSE IF a.t = "float" \/ b.t = "float" THEN PyFloat(a.v - b.v)
  ELSE IF IsNumpy(a) \/ IsNumpy(b) THEN NpInt(a.v - b.v)
  ELSE PyInt(a.v - b.v)

\* a >= b: comparing with a numpy scalar gives numpy.bool_
GreaterEq(a, b) ==
  IF IsNumpy(a) \/ IsNumpy(b) THEN NpBool(a.v >= b.v) ELSE PyBool(a.v >= b.v)

\* ------------------------------------------------------------ compare_models
\* the test `distilbert_f1 > baseline_f1` that selects the best model
distilbert_wins_ties(baseline_f1, distilbert_f1) == distilbert_f1.v >= baseline_f1.v

distilbert_is_better(baseline_f1, distilbert_f1) == distilbert_f1.v > baseline_f1.v

\* the improvement assigned in the two branches of that test
improvement_unswapped(baseline_f1, distilbert_f1) ==
  Minus(distilbert_f1, baseline_f1)

improvement_of(baseline_f1, distilbert_f1) ==
  IF distilbert_is_better(baseline_f1, distilbert_f1)
  THEN Minus(distilbert_f1, baseline_f1)
  ELSE Minus(baseline_f1, distilbert_f1)

\* the target check `f1 >= comparison["target_f1"]`
achieves_target_exclusive(f1, target) ==
  IF IsNumpy(f1) \/ IsNumpy(target) THEN NpBool(f1.v > target.v)
  ELSE PyBool(f1.v > target.v)

achieves_target(f1, target) == GreaterEq(f1, target)

\* the four headline metrics compare_models copies out of a metrics dict
headline(metrics) ==
  PyDict([f1_score |-> Get(metrics, "f1_score", PyInt(0)),
          accuracy |-> Get(metrics, "accuracy", PyInt(0)),
          precision |-> Get(metrics, "precision", PyInt(0)),
          recall |-> Get(metrics, "recall", PyInt(0))])

metrics_after_setdefault(metrics) ==
  PyDict([k \in DOMAIN metrics.v \cup {"f1_score", "accuracy", "precision", "recall"} |->
            Get(metrics, k, PyInt(0))])
\* a metrics argument after compare_models has read it: dict.get inserts nothing
metrics_after_get(metrics) == metrics

\* ModelEvaluator.compare_models; target is config["evaluation"]["target_f1_score"]
compare_models(baseline_metrics, distilbert_metrics, target) ==
  IF ~Truthy(baseline_metrics) \/ ~Truthy(distilbert_metrics) THEN EmptyDict
  ELSE
    LET baseline_f1 == headline(baseline_metrics).v.f1_score
        distilbert_f1 == headline(distilbert_metrics).v.f1_score
    IN PyDict([
         baseline |-> headline(baseline_metrics),
         distilbert |-> headline(distilbert_metrics),
         best_model |-> PyStr(IF distilbert_is_better(baseline_f1, distilbert_f1)
                              THEN "distilbert" ELSE "baseline"),
         improvement |-> improvement_of(baseline_f1, distilbert_f1),
         target_f1 |-> target,
         baseline_achieves_target |-> achieves_target(baseline_f1, target),
         distilbert_achieves_target |-> achieves_target(distilbert_f1, target)])

\* ------------------------------------------------------- numpy to JSON
\* convert_numpy, the helper nested in save_results: ndarray.tolist(),
\* int(np.integer), float(np.floating), recursion into dicts and lists, and
\* every other object (numpy.bool_ among them) returned as it is
RECURSIVE convert_numpy(_)
convert_numpy(obj) ==
  CASE obj.t = "ndarray" ->
         PyList([i \in DOMAIN obj.v |-> convert_numpy(obj.v[i])])
    [] obj.t = "np.integer" -> PyInt(obj.v)
    [] obj.t = "np.floating" -> PyFloat(obj.v)
    [] obj.t = "dict" -> PyDict([k \in DOMAIN obj.v |-> convert_numpy(obj.v[k])])
    [] obj.t = "list" -> PyList([i \in DOMAIN obj.v |-> convert_numpy(obj.v[i])])
    [] OTHER -> obj

\* decimal digits of a natural number, most significant first
RECURSIVE Digits(_)
Digits(n) == IF n < 10 THEN <<n>> ELSE Digits(n \div 10) \o <<n % 10>>

RECURSIVE DigitsValue(_)
DigitsValue(ds) ==
  IF ds = <<>> THEN 0 ELSE 10 * DigitsValue(SubSeq(ds, 1, Len(ds) - 1)) + ds[Len(ds)]

Abs(n) == IF n < 0 THEN -n ELSE n

\* the text json.dump writes for an int
int_repr(n) == [neg |-> n < 0, whole |-> Digits(Abs(n)), frac |-> <<>>]

\* the text json.dump writes for a float: float.__repr__, which keeps every
\* digit (a float holds hundredths here, so two fraction digits)
float_repr_rounded(x) ==
  [neg |-> x < 0, whole |-> Digits(Abs(x) \div 100),
   frac |-> <<(Abs(x) % 100) \div 10, 0>>]

float_repr(x) ==
  [neg |-> x < 0, whole |-> Digits(Abs(x) \div 100),
   frac |-> <<(Abs(x) % 100) \div 10, Abs(x) % 10>>]

\* the number json.load reads back from such a text
parse_int(text) == (IF text.neg THEN -1 ELSE 1) * DigitsValue(text.whole)

parse_float(text) ==
  (IF text.neg THEN -1 ELSE 1)
    * (100 * DigitsValue(text.whole) + 10 * text.frac[1] + text.frac[2])

\* JSON values, as written to the file
JNull == [j |-> "null", v |-> 0]
JNumber(isFloat, text) == [j |-> IF isFloat THEN "float" ELSE "int", v |-> text]
JBool(b) == [j |-> "bool", v |-> b]
JString(s) == [j |-> "string", v |-> s]
JArray(items) == [j |-> "array", v |-> items]
JObject(members) == [j |-> "object", v |-> members]

\* the types json.dump's encoder accepts: dict, list, str, int, float (and
\* its subclass numpy.float64), bool, None; anything else is a TypeError
RECURSIVE Serializable(_)
Serializable(obj) ==
  CASE obj.t \in {"dict", "list"} -> \A k \in DOMAIN obj.v : Serializable(obj.v[k])
    [] obj.t \in {"str", "int", "float", "np.floating", "bool", "None"} -> TRUE
    [] OTHER -> FALSE

RECURSIVE json_encode(_)
json_encode(obj) ==
  CASE obj.t = "dict" -> JObject([k \in DOMAIN obj.v |-> json_encode(obj.v[k])])
    [] obj.t = "list" -> JArray([i \in DOMAIN obj.v |-> json_encode(obj.v[i])])
    [] obj.t = "str" -> JString(obj.v)
    [] obj.t = "int" -> JNumber(FALSE, int_repr(obj.v))
    [] obj.t \in {"float", "np.floating"} -> JNumber(TRUE, float_repr(obj.v))
    [] obj.t = "bool" -> JBool(obj.v)
    [] OTHER -> JNull

\* json.load's decoder: objects to dicts, arrays to lists, numbers to int or float
RECURSIVE json_decode(_)
json_decode(js) ==
  CASE js.j = "object" -> PyDict([k \in DOMAIN js.v |-> json_decode(js.v[k])])
    [] js.j = "array" -> PyList([i \in DOMAIN js.v |-> json_decode(js.v[i])])
    [] js.j = "string" -> PyStr(js.v)
    [] js.j = "int" -> PyInt(parse_int(js.v))
    [] js.j = "float" -> PyFloat(parse_float(js.v))
    [] js.j = "bool" -> PyBool(js.v)
    [] OTHER -> PyNone

\* Python's == on two values: numbers and booleans compare by value whatever
\* their type (0.91 == numpy.float64(0.91)), containers compare item by item
Kind(x) ==
  CASE x.t \in {"float", "np.floating", "int", "np.integer"} -> "number"
    [] x.t \in {"bool", "np.bool_"} -> "bool"
    [] x.t \in {"list", "ndarray"} -> "sequence"
    [] OTHER -> x.t

RECURSIVE PyEq(_, _)
PyEq(a, b) ==
  /\ Kind(a) = Kind(b)
  /\ CASE Kind(a) \in {"dict", "sequence"} ->
            /\ DOMAIN a.v = DOMAIN b.v
            /\ \A k \in DOMAIN a.v : PyEq(a.v[k], b.v[k])
       [] Kind(a) = "None" -> TRUE
       [] OTHER -> a.v = b.v

\* ------------------------------------------------- evaluation_results.json
\* The file is the sequence of chunks json.dump has written so far: the
\* opening brace, one chunk per top-level member in insertion order, the
\* closing brace.  open(path, "w") truncates it to the empty sequence.
KeyOrder ==
  <<"timestamp", "test_samples", "baseline_metrics", "distilbert_metrics",
    "comparison", "summary">>

Chunk(c, key, val) == [c |-> c, key |-> key, val |-> val]

KeysInOrder(doc) == SelectSeq(KeyOrder, LAMBDA k : k \in DOMAIN doc.v)

\* the chunks json.dump(doc, f) writes, in order
dump_chunks(doc) ==
  LET keys == KeysInOrder(doc)
  IN <<Chunk("open", "", JNull)>>
       \o [i \in 1..Len(keys) |-> Chunk("member", keys[i], json_encode(doc.v[keys[i]]))]
       \o <<Chunk("close", "", JNull)>>

\* json.load accepts a text only when it is one whole JSON document
WellFormed(text) ==
  /\ Len(text) >= 2
  /\ text[1].c = "open"
  /\ text[Len(text)].c = "close"
  /\ \A i \in 2..(Len(text) - 1) : text[i].c = "member"

json_load(text) ==
  LET keys == {text[i].key : i \in 2..(Len(text) - 1)}
      at(k) == CHOOSE i \in 2..(Len(text) - 1) : text[i].key = k
  IN PyDict([k \in keys |-> json_decode(text[at(k)].val)])

AbsentFile == [exists |-> FALSE, text |-> <<>>]
FileOf(doc) == [exists |-> TRUE, text |-> dump_chunks(doc)]

file_after_open_w(f) == [exists |-> TRUE, text |-> <<>>]
\* the file after the dashboard's exists() test and open(results_path, 'r')
file_after_read(f) == f

\* ------------------------------------------------------ classifier results
\* The classifiers and sklearn's metric functions are external: an evaluate
\* call yields one of these sample score sets (hundredths).
SampleScores ==
  {[f1 |-> 0, accuracy |-> 50, precision_ham |-> 50, recall_ham |-> 100,
    precision_spam |-> 0, recall_spam |-> 0],
   [f1 |-> 91, accuracy |-> 93, precision_ham |-> 94, recall_ham |-> 96,
    precision_spam |-> 92, recall_spam |-> 90],
   [f1 |-> TargetF1, accuracy |-> 97, precision_ham |-> 98, recall_ham |-> 98,
    precision_spam |-> 96, recall_spam |-> 94]}

\* a scalar returned by sklearn: numpy.float64 or a Python float, depending
\* on the installed version
Scalar(numpy, x) == IF numpy THEN NpFloat(x) ELSE PyFloat(x)

\* cm.tolist() of the 2x2 confusion matrix of a test set of n rows
ConfusionList(n) ==
  PyList(<<PyList(<<PyInt(n), PyInt(0)>>), PyList(<<PyInt(0), PyInt(0)>>)>>)

\* the dict BaselineModel.evaluate returns
BaselineModel_evaluate(sc, numpy, n) ==
  PyDict([f1_score |-> Scalar(numpy, sc.f1),
          accuracy |-> Scalar(numpy, sc.accuracy),
          precision_ham |-> Scalar(numpy, sc.precision_ham),
          recall_ham |-> Scalar(numpy, sc.recall_ham),
          precision_spam |-> Scalar(numpy, sc.precision_spam),
          recall_spam |-> Scalar(numpy, sc.recall_spam),
          confusion_matrix |-> ConfusionList(n),
          classification_report |-> PyDict([
            Ham |-> PyDict([precision |-> Scalar(numpy, sc.precision_ham),
                            recall |-> Scalar(numpy, sc.recall_ham)]),
            Spam |-> PyDict([precision |-> Scalar(numpy, sc.precision_spam),
                             recall |-> Scalar(numpy, sc.recall_spam)]),
            accuracy |-> Scalar(numpy, sc.accuracy)])])

\* the dict DistilBERTModel.evaluate returns; the per-class values are
\* elements of the arrays returned for average=None, numpy scalars always
DistilBERTModel_evaluate(sc, numpy, n) ==
  PyDict([f1_score |-> Scalar(numpy, sc.f1),
          accuracy |-> Scalar(numpy, sc.accuracy),
          precision |-> Scalar(numpy, sc.accuracy),
          recall |-> Scalar(numpy, sc.accuracy),
          precision_ham |-> NpFloat(sc.precision_ham),
          recall_ham |-> NpFloat(sc.recall_ham),
          precision_spam |-> NpFloat(sc.precision_spam),
          recall_spam |-> NpFloat(sc.recall_spam),
          confusion_matrix |-> ConfusionList(n)])

\* d with d[key] = val added (metrics["model_type"] = ...)
With(d, key, val) ==
  PyDict([k \in DOMAIN d.v \cup {key} |-> IF k = key THEN val ELSE d.v[k]])

\* ModelEvaluator.evaluate_baseline_model: any exception of load_model or
\* evaluate is caught and {} returned
evaluate_baseline_model(loadable, sc, numpy, n) ==
  IF ~loadable THEN EmptyDict
  ELSE With(With(BaselineModel_evaluate(sc, numpy, n),
                 "model_type", PyStr("baseline")),
            "model_name", PyStr("TF-IDF + Logistic Regression"))

\* ModelEvaluator.evaluate_distilbert_model
evaluate_distilbert_model(loadable, sc, numpy, n) ==
  IF ~loadable THEN EmptyDict
  ELSE With(With(DistilBERTModel_evaluate(sc, numpy, n),
                 "model_type", PyStr("distilbert")),
            "model_name", PyStr("DistilBERT"))

\* pd.Timestamp.now().isoformat()
Timestamp == PyStr("2025-01-01T00:00:00")

\* the results dict run_full_evaluation prepares
full_results(test_df, baseline_metrics, distilbert_metrics, comparison) ==
  PyDict([timestamp |-> Timestamp,
          test_samples |-> test_df,
          baseline_metrics |-> baseline_metrics,
          distilbert_metrics |-> distilbert_metrics,
          comparison |-> comparison])

\* (a + b) / 2 on two scalars of the classification report
Mean(a, b) ==
  IF IsNumpy(a) \/ IsNumpy(b) THEN NpFloat((a.v + b.v) \div 2)
  ELSE PyFloat((a.v + b.v) \div 2)

\* the baseline_metrics dict evaluate_baseline_only builds from evaluate's result
baseline_only_metrics(metrics) ==
  LET report == metrics.v.classification_report
  IN PyDict([model_type |-> PyStr("baseline"),
             model_name |-> PyStr("TF-IDF + Logistic Regression"),
             f1_score |-> metrics.v.f1_score,
             accuracy |-> metrics.v.accuracy,
             precision |-> Mean(report.v.Ham.v.precision, report.v.Spam.v.precision),
             recall |-> Mean(report.v.Ham.v.recall, report.v.Spam.v.recall),
             precision_ham |-> report.v.Ham.v.precision,
             recall_ham |-> report.v.Ham.v.recall,
             precision_spam |-> report.v.Spam.v.precision,
             recall_spam |-> report.v.Spam.v.recall,
             confusion_matrix |-> metrics.v.confusion_matrix])

\* the comparison dict evaluate_baseline_only writes by hand
baseline_only_comparison(baseline_metrics, target_f1) ==
  PyDict([baseline |-> PyDict([f1_score |-> baseline_metrics.v.f1_score,
                               accuracy |-> baseline_metrics.v.accuracy,
                               precision |-> baseline_metrics.v.precision,
                               recall |-> baseline_metrics.v.recall]),
          distilbert |-> PyDict([f1_score |-> PyFloat(0), accuracy |-> PyFloat(0),
                                 precision |-> PyFloat(0), recall |-> PyFloat(0)]),
          best_model |-> PyStr("baseline"),
          improvement |-> PyFloat(0),
          target_f1 |-> target_f1,
          baseline_achieves_target |-> GreaterEq(baseline_metrics.v.f1_score, target_f1),
          distilbert_achieves_target |-> PyBool(FALSE)])

\* the results dict evaluate_baseline_only prepares
baseline_only_results(test_df, baseline_metrics, target_f1) ==
  PyDict([timestamp |-> Timestamp,
          test_samples |-> test_df,
          baseline_metrics |-> baseline_metrics,
          distilbert_metrics |-> EmptyDict,
          comparison |-> baseline_only_comparison(baseline_metrics, target_f1),
          summary |-> PyDict([
            models_evaluated |-> PyList(<<PyStr("baseline")>>),
            best_model |-> PyStr("baseline"),
            best_f1_score |-> baseline_metrics.v.f1_score,
            target_achieved |-> GreaterEq(baseline_metrics.v.f1_score, target_f1)])])

\* ---------------------------------------------------------------- dashboard
\* SpamDetectorApp.get_best_model_type: None when the file does not exist and
\* when anything raises (json.load on a broken text, .get on a non-dict)
get_best_model_type(f) ==
  IF ~f.exists THEN PyNone
  ELSE IF ~WellFormed(f.text) THEN PyNone
  ELSE LET comparison == Get(json_load(f.text), "comparison", EmptyDict)
       IN IF comparison.t # "dict" THEN PyNone
          ELSE Get(comparison, "best_model", PyNone)

\* Python truth value of a loaded JSON value (`if not comparison`)
Falsy(x) ==
  CASE x.t \in {"dict", "list"} -> DOMAIN x.v = {}
    [] x.t = "None" -> TRUE
    [] x.t = "bool" -> ~x.v
    [] x.t \in {"int", "float"} -> x.v = 0
    [] x.t = "str" -> x.v = ""
    [] OTHER -> FALSE

HasKeys(d, keys) == d.t = "dict" /\ keys \subseteq DOMAIN d.v

IsNumber(x) == x.t \in {"int", "float"}

\* SpamDetectorApp.show_model_comparison, as what it has put on the page
\* when it returns: the info line for a missing file, nothing at all for a
\* document without comparison, st.error for any exception, else the metrics
show_model_comparison(f) ==
  IF ~f.exists THEN "info_run_evaluation"
  ELSE IF ~WellFormed(f.text) THEN "error"
  ELSE LET comparison == Get(json_load(f.text), "comparison", EmptyDict)
           c == comparison.v
           headlineKeys == {"f1_score", "accuracy", "precision", "recall"}
       IN IF Falsy(comparison) THEN "nothing"
          ELSE IF ~HasKeys(comparison,
                     {"target_f1", "baseline", "baseline_achieves_target",
                      "distilbert", "distilbert_achieves_target"})
          THEN "error"
          ELSE IF ~IsNumber(c.target_f1) \/ ~HasKeys(c.baseline, {"f1_score"})
                  \/ ~HasKeys(c.distilbert, {"f1_score"})
          THEN "error"
          ELSE IF ~IsNumber(c.baseline.v.f1_score) \/ ~IsNumber(c.distilbert.v.f1_score)
          THEN "error"
          ELSE IF c.distilbert.v.f1_score.v > 0
          THEN IF HasKeys(c.baseline, headlineKeys) /\ HasKeys(c.distilbert, headlineKeys)
                  /\ HasKeys(comparison, {"best_model", "improvement"})
                  /\ IsNumber(Get(comparison, "improvement", PyNone))
               THEN "comparison" ELSE "error"
          ELSE IF HasKeys(c.baseline, headlineKeys)
                  /\ HasKeys(comparison, {"best_model", "improvement"})
               THEN "baseline_only" ELSE "error"

\* what open() and json.load find at the moment the dashboard reads: no
\* file, a whole document, or a text that is not one (torn when a writer has
\* the file open at that moment, broken when none has)
ReadStatus(f, writerActive) ==
  IF ~f.exists THEN "absent"
  ELSE IF WellFormed(f.text) THEN "document"
  ELSE IF writerActive THEN "torn"
  ELSE "broken"

\* -------------------------------------------------------------------- state
VARIABLES
  env,                 \* configuration and installation: target_f1_score, which
                       \* models' files exist, whether sklearn returns numpy scalars
  test_csv,            \* whether data/test_data.csv exists
  file,                \* results_dir/evaluation_results.json
  pc,                  \* position of run_full_evaluation
  test_df,             \* its locals: len(test_df), the two metrics dicts,
  baseline_metrics,    \* the comparison and the results dict
  distilbert_metrics,
  comparison,
  results,
  bpc,                 \* position of evaluate_baseline_only
  b_results,           \* its results dict
  dash,                \* dashboard session: loaded models, best_model_type, what
                       \* show_model_comparison displayed, what the last read found
  svc,                 \* the gRPC SpamDetectorServicer and its requests in flight
  calc,                \* one call of each classifier's evaluate on a test set
  txt,                 \* one call of DataPreprocessor.clean_text
  split,               \* calls of DataPreprocessor.split_data
  ui,                  \* the dashboard's message form: session state and widgets
  obj                  \* one classifier object and the files its model is saved in

vars ==
  <<env, test_csv, file, pc, test_df, baseline_metrics, distilbert_metrics,
    comparison, results, bpc, b_results, dash, svc, calc, txt, split, ui, obj>>

\* the components the evaluation scripts and the dashboard never touch
others == <<svc, calc, txt, split, ui, obj>>
NotStarted == "not_started"
OthersIdle ==
  /\ svc = NotStarted
  /\ calc = NotStarted
  /\ txt = NotStarted
  /\ split = NotStarted
  /\ ui = NotStarted
  /\ obj = NotStarted

runVars == <<pc, test_df, baseline_metrics, distilbert_metrics, comparison, results>>
baseVars == <<bpc, b_results>>

\* documents an earlier version or another tool may have left in results_dir
OldDocuments ==
  {PyDict([timestamp |-> Timestamp, test_samples |-> PyInt(1)]),
   PyDict([timestamp |-> Timestamp,
           comparison |-> PyDict([best_model |-> PyStr("baseline")])])}

InitialFiles == {AbsentFile} \cup {FileOf(d) : d \in OldDocuments}

Init ==
  /\ env \in [target : {PyFloat(x) : x \in TargetValues},
              models : SUBSET {"baseline", "distilbert"},
              numpy : BOOLEAN,
              rows : 1..MaxSamples]
  /\ test_csv \in BOOLEAN
  /\ file \in InitialFiles
  /\ pc = "not_started"
  /\ test_df = PyNone
  /\ baseline_metrics = PyNone
  /\ distilbert_metrics = PyNone
  /\ comparison = PyNone
  /\ results = PyNone
  /\ bpc = "not_started"
  /\ b_results = PyNone
  /\ dash = [baseline_model |-> FALSE, distilbert_model |-> FALSE,
             best_model_type |-> PyNone, view |-> "none",
             read |-> "none"]
  /\ OthersIdle

\* some writer has opened the file and not closed it yet
WriterActive == pc = "saving" \/ bpc = "saving"

\* The two scripts are batch programs started one after the other from a
\* shell: one starts only when the other is not in the middle of its run.
\* The dashboard is a server and runs beside them.
RunIdle == pc \in {"not_started", "returned_none", "raised", "persisted"}
BaseIdle == bpc \in {"not_started", "returned", "failed", "done"}

\* ------------------------------------------------------- run_full_evaluation
\* test_df = self.load_test_data(): read test_data.csv, or preprocess the
\* dataset and save the csv first when it is missing
RunLoadTestData ==
  /\ pc = "not_started"
  /\ BaseIdle
  /\ pc' = "data_loaded"
  /\ test_df' = PyInt(env.rows)
  /\ test_csv' = TRUE
  /\ UNCHANGED <<others, env, file, baseline_metrics, distilbert_metrics, comparison,
                 results, baseVars, dash>>

RunEvaluateBaseline ==
  /\ pc = "data_loaded"
  /\ \E sc \in SampleScores :
       baseline_metrics' =
         evaluate_baseline_model("baseline" \in env.models, sc, env.numpy, test_df.v)
  /\ pc' = "baseline_evaluated"
  /\ UNCHANGED <<others, env, test_csv, file, test_df, distilbert_metrics, comparison,
                 results, baseVars, dash>>

RunEvaluateDistilbert ==
  /\ pc = "baseline_evaluated"
  /\ \E sc \in SampleScores :
       distilbert_metrics' =
         evaluate_distilbert_model("distilbert" \in env.models, sc, env.numpy, test_df.v)
  /\ pc' = "distilbert_evaluated"
  /\ UNCHANGED <<others, env, test_csv, file, test_df, baseline_metrics, comparison,
                 results, baseVars, dash>>

\* the early return `if not baseline_metrics or not distilbert_metrics`
evaluation_incomplete_ignored(b, d) == FALSE

evaluation_incomplete(b, d) == ~Truthy(b) \/ ~Truthy(d)

\* ... return (None): nothing compared, nothing written
RunGiveUp ==
  /\ pc = "distilbert_evaluated"
  /\ evaluation_incomplete(baseline_metrics, distilbert_metrics)
  /\ pc' = "returned_none"
  /\ UNCHANGED <<others, env, test_csv, file, test_df, baseline_metrics,
                 distilbert_metrics, comparison, results, baseVars, dash>>

RunCompare ==
  /\ pc = "distilbert_evaluated"
  /\ ~evaluation_incomplete(baseline_metrics, distilbert_metrics)
  /\ comparison' = compare_models(baseline_metrics, distilbert_metrics, env.target)
  /\ baseline_metrics' = metrics_after_get(baseline_metrics)
  /\ distilbert_metrics' = metrics_after_get(distilbert_metrics)
  /\ pc' = "compared"
  /\ UNCHANGED <<others, env, test_csv, file, test_df, results, baseVars, dash>>

\* create_comparison_plots writes the two png files, then results is prepared
RunPrepareResults ==
  /\ pc = "compared"
  /\ results' = full_results(test_df, baseline_metrics, distilbert_metrics, comparison)
  /\ pc' = "prepared"
  /\ UNCHANGED <<others, env, test_csv, file, test_df, baseline_metrics,
                 distilbert_metrics, comparison, baseVars, dash>>

\* save_results up to open(results_path, "w"), which truncates the file in place
RunSaveOpen ==
  /\ pc = "prepared"
  /\ file' = [exists |-> TRUE, text |-> <<>>]
  /\ pc' = "saving"
  /\ UNCHANGED <<others, env, test_csv, test_df, baseline_metrics, distilbert_metrics,
                 comparison, results, baseVars, dash>>

\* json.dump(results_clean, f): the next chunk goes to the file; a value the
\* encoder does not accept raises TypeError out of run_full_evaluation, and
\* the `with` block closes the file as it is
RunSaveWrite ==
  /\ pc = "saving"
  /\ LET clean == convert_numpy(results)
         chunks == dump_chunks(clean)
         next == Len(file.text) + 1
     IN /\ next < Len(chunks)
        /\ IF next = 1 \/ Serializable(clean.v[chunks[next].key])
           THEN /\ file' = [file EXCEPT !.text = Append(@, chunks[next])]
                /\ pc' = pc
           ELSE /\ file' = file
                /\ pc' = "raised"
  /\ UNCHANGED <<others, env, test_csv, test_df, baseline_metrics, distilbert_metrics,
                 comparison, results, baseVars, dash>>

\* the last chunk, the close of the file, print_summary and return results
RunSaveClose ==
  /\ pc = "saving"
  /\ LET chunks == dump_chunks(convert_numpy(results))
     IN /\ Len(file.text) + 1 = Len(chunks)
        /\ file' = [file EXCEPT !.text = Append(@, chunks[Len(chunks)])]
  /\ pc' = "persisted"
  /\ UNCHANGED <<others, env, test_csv, test_df, baseline_metrics, distilbert_metrics,
                 comparison, results, baseVars, dash>>

\* ---------------------------------------------------- evaluate_baseline_only
\* `if not test_path.exists(): return`
BaseNoTestData ==
  /\ bpc = "not_started"
  /\ RunIdle
  /\ ~test_csv
  /\ bpc' = "returned"
  /\ UNCHANGED <<others, env, test_csv, file, runVars, b_results, dash>>

\* load_model raises FileNotFoundError inside the try: the except prints it
BaseLoadFails ==
  /\ bpc = "not_started"
  /\ RunIdle
  /\ test_csv
  /\ "baseline" \notin env.models
  /\ bpc' = "failed"
  /\ UNCHANGED <<others, env, test_csv, file, runVars, b_results, dash>>

\* read the csv, load and evaluate the baseline, build metrics, comparison
\* and results
BaseEvaluate ==
  /\ bpc = "not_started"
  /\ RunIdle
  /\ test_csv
  /\ "baseline" \in env.models
  /\ \E sc \in SampleScores :
       b_results' =
         baseline_only_results(
           PyInt(env.rows),
           baseline_only_metrics(BaselineModel_evaluate(sc, env.numpy, env.rows)),
           env.target)
  /\ bpc' = "prepared"
  /\ UNCHANGED <<others, env, test_csv, file, runVars, dash>>

\* open(results_path, "w")
BaseSaveOpen ==
  /\ bpc = "prepared"
  /\ file' = [exists |-> TRUE, text |-> <<>>]
  /\ bpc' = "saving"
  /\ UNCHANGED <<others, env, test_csv, runVars, b_results, dash>>

\* json.dump(results, f), with no conversion of numpy values; a TypeError is
\* caught by the function's except, after the file has been closed as it is
BaseSaveWrite ==
  /\ bpc = "saving"
  /\ LET chunks == dump_chunks(b_results)
         next == Len(file.text) + 1
     IN /\ next < Len(chunks)
        /\ IF next = 1 \/ Serializable(b_results.v[chunks[next].key])
           THEN /\ file' = [file EXCEPT !.text = Append(@, chunks[next])]
                /\ bpc' = bpc
           ELSE /\ file' = file
                /\ bpc' = "failed"
  /\ UNCHANGED <<others, env, test_csv, runVars, b_results, dash>>

BaseSaveClose ==
  /\ bpc = "saving"
  /\ LET chunks == dump_chunks(b_results)
     IN /\ Len(file.text) + 1 = Len(chunks)
        /\ file' = [file EXCEPT !.text = Append(@, chunks[Len(chunks)])]
  /\ bpc' = "done"
  /\ UNCHANGED <<others, env, test_csv, runVars, b_results, dash>>

\* ------------------------------------------------------- dashboard handlers
\* the "Cargar Modelos" button: load_models, then get_best_model_type when
\* at least one model loaded
DashLoadModels ==
  /\ LET b == "baseline" \in env.models
         d == "distilbert" \in env.models
     IN dash' = IF b \/ d
                THEN [dash EXCEPT !.baseline_model = b, !.distilbert_model = d,
                                  !.best_model_type = get_best_model_type(file),
                                  !.read = ReadStatus(file, WriterActive)]
                ELSE dash
  /\ file' = file_after_read(file)
  /\ UNCHANGED <<others, env, test_csv, runVars, baseVars>>

\* the end of main_interface, reached on every rerun with a model selected
DashShowComparison ==
  /\ dash.baseline_model \/ dash.distilbert_model
  /\ dash' = [dash EXCEPT !.view = show_model_comparison(file),
                          !.read = ReadStatus(file, WriterActive)]
  /\ file' = file_after_read(file)
  /\ UNCHANGED <<others, env, test_csv, runVars, baseVars>>

\* the two evaluation scripts alone
NextScripts ==
  \/ RunLoadTestData
  \/ RunEvaluateBaseline
  \/ RunEvaluateDistilbert
  \/ RunGiveUp
  \/ RunCompare
  \/ RunPrepareResults
  \/ RunSaveOpen
  \/ RunSaveWrite
  \/ RunSaveClose
  \/ BaseNoTestData
  \/ BaseLoadFails
  \/ BaseEvaluate
  \/ BaseSaveOpen
  \/ BaseSaveWrite
  \/ BaseSaveClose

SpecScripts == Init /\ [][NextScripts]_vars

\* the scripts and the dashboard beside them
Next ==
  \/ NextScripts
  \/ DashLoadModels
  \/ DashShowComparison

Spec == Init /\ [][Next]_vars

\* =================================================================== claims
BaselineF1 == baseline_metrics.v.f1_score.v
DistilbertF1 == distilbert_metrics.v.f1_score.v

\* compare_models has returned a comparison record in this run
Compared == comparison.t = "dict" /\ Truthy(comparison)

\* C1: compare_models names distilbert as best_model only when its f1_score is
\* strictly greater than the baseline's; when the two f1 scores are equal the
\* best_model is baseline and the improvement is 0.
C1_BaselineWinsTies ==
  Compared =>
    /\ comparison.v.best_model.v = "distilbert" => DistilbertF1 > BaselineF1
    /\ DistilbertF1 = BaselineF1 =>
         /\ comparison.v.best_model.v = "baseline"
         /\ comparison.v.improvement.v = 0

C1_TieCompared == Compared /\ DistilbertF1 = BaselineF1 /\ BaselineF1 > 0

\* C2: the improvement of a comparison record made by compare_models is the
\* absolute difference of the two f1 scores, so it is never negative,
\* whichever model is best.
C2_ImprovementIsAbsoluteDifference ==
  Compared =>
    /\ comparison.v.improvement.v = Abs(BaselineF1 - DistilbertF1)
    /\ comparison.v.improvement.v >= 0

C2_BaselineAhead ==
  /\ Compared
  /\ comparison.v.best_model.v = "baseline"
  /\ comparison.v.improvement.v > 0

\* the comparison record evaluate_baseline_only has built
BaseCompared == b_results.t = "dict"
BaseComparison == b_results.v.comparison.v

\* C3: each achieves_target flag is true exactly when that model's f1_score
\* is at least the configured target (f1 equal to the target achieves it),
\* in compare_models and in evaluate_baseline_only alike.
C3_TargetCheckInclusive ==
  /\ Compared =>
       /\ comparison.v.baseline_achieves_target.v = (BaselineF1 >= env.target.v)
       /\ comparison.v.distilbert_achieves_target.v = (DistilbertF1 >= env.target.v)
  /\ BaseCompared =>
       /\ BaseComparison.baseline_achieves_target.v
            = (BaseComparison.baseline.v.f1_score.v >= env.target.v)
       /\ BaseComparison.distilbert_achieves_target.v
            = (BaseComparison.distilbert.v.f1_score.v >= env.target.v)
       /\ b_results.v.summary.v.target_achieved.v
            = (b_results.v.baseline_metrics.v.f1_score.v >= env.target.v)

C3_ExactlyOnTarget ==
  /\ Compared
  /\ BaselineF1 = env.target.v
  /\ comparison.v.baseline_achieves_target.v

\* run_full_evaluation has ended, by a return or by an exception
RunEnded == pc \in {"returned_none", "raised", "persisted"}

ExactlyOneModelFailed ==
  /\ baseline_metrics.t = "dict"
  /\ distilbert_metrics.t = "dict"
  /\ Truthy(baseline_metrics) # Truthy(distilbert_metrics)

\* C4: a run in which exactly one classifier failed still ends with a
\* persisted comparison record: the missing model's f1 zeroed, its
\* achieves_target flag false, best_model the available model.
C4_PartialRunPersistsComparison ==
  (RunEnded /\ ExactlyOneModelFailed) =>
    /\ pc = "persisted"
    /\ Compared
    /\ IF Truthy(baseline_metrics)
       THEN /\ comparison.v.best_model.v = "baseline"
            /\ comparison.v.distilbert.v.f1_score.v = 0
            /\ ~comparison.v.distilbert_achieves_target.v
       ELSE /\ comparison.v.best_model.v = "distilbert"
            /\ comparison.v.baseline.v.f1_score.v = 0
            /\ ~comparison.v.baseline_achieves_target.v

\* C5: with the challenger unavailable, a baseline f1 of 0.91 and a target of
\* 0.95, the comparison record has best_model baseline, both achieves_target
\* flags false and improvement 0.91.
C5_BaselineOnlyScenario ==
  (/\ BaseCompared
   /\ BaseComparison.baseline.v.f1_score.v = 91
   /\ BaseComparison.distilbert.v.f1_score.v = 0
   /\ env.target.v = TargetF1) =>
    /\ BaseComparison.best_model.v = "baseline"
    /\ ~BaseComparison.baseline_achieves_target.v
    /\ ~BaseComparison.distilbert_achieves_target.v
    /\ BaseComparison.improvement.v = 91

\* C6: in a run the test data is loaded before a model is evaluated, both
\* models are evaluated before the comparison is computed, and the result
\* document is written only after all of that.
C6_RunStagesInOrder ==
  /\ baseline_metrics.t = "dict" => test_df.t = "int"
  /\ distilbert_metrics.t = "dict" => baseline_metrics.t = "dict"
  /\ comparison.t = "dict" =>
       /\ Truthy(baseline_metrics)
       /\ distilbert_metrics.t = "dict" /\ Truthy(distilbert_metrics)
  /\ results.t = "dict" => Compared /\ results.v.comparison = comparison
  /\ pc \in {"saving", "raised", "persisted"} => results.t = "dict"
  /\ pc \in {"not_started", "data_loaded", "baseline_evaluated",
             "distilbert_evaluated", "returned_none", "compared", "prepared"} =>
       (file \in InitialFiles \/ bpc \in {"saving", "failed", "done"})

C6_Persisted == pc = "persisted" /\ WellFormed(file.text)

\* C7: a reader running beside a writer never finds an empty or partly
\* written document in evaluation_results.json.
C7_NoTornRead == dash.read # "torn"

MetricsKeys ==
  {"f1_score", "accuracy", "precision_ham", "recall_ham", "precision_spam",
   "recall_spam", "confusion_matrix"}

IsMatrix2x2(m) ==
  /\ m.t = "list" /\ DOMAIN m.v = 1..2
  /\ \A i \in 1..2 :
       /\ m.v[i].t = "list" /\ DOMAIN m.v[i].v = 1..2
       /\ \A j \in 1..2 : m.v[i].v[j].t = "int"

FullMetricsShape(m) ==
  /\ HasKeys(m, MetricsKeys)
  /\ IsMatrix2x2(m.v.confusion_matrix)

DocumentShape(doc) ==
  /\ HasKeys(doc, {"timestamp", "test_samples", "baseline_metrics",
                   "distilbert_metrics", "comparison"})
  /\ FullMetricsShape(doc.v.baseline_metrics)
  /\ FullMetricsShape(doc.v.distilbert_metrics)

\* C8: every result document a writer has written has the top-level keys
\* timestamp, test_samples, both metrics entries and comparison, and each
\* metrics entry has the full shape with a 2x2 integer confusion matrix.
C8_WrittenDocumentShape ==
  /\ pc = "persisted" => DocumentShape(results)
  /\ bpc = "done" => DocumentShape(b_results)

\* C9: the document read back right after a save equals, field for field and
\* number for number, the results that were saved.
C9_RoundTrip ==
  [][/\ (pc = "saving" /\ pc' = "persisted") =>
          /\ WellFormed(file'.text)
          /\ PyEq(json_load(file'.text), results)
     /\ (bpc = "saving" /\ bpc' = "done") =>
          /\ WellFormed(file'.text)
          /\ PyEq(json_load(file'.text), b_results)]_vars

C9_SavedWithNumpyValues ==
  /\ pc = "persisted"
  /\ WellFormed(file.text)
  /\ results.v.distilbert_metrics.v.precision_ham.t = "np.floating"
  /\ results.v.baseline_metrics.v.f1_score.v = 91

\* the document is absent, unreadable or lacks a required field
ComparisonKeys ==
  {"baseline", "distilbert", "best_model", "improvement", "target_f1",
   "baseline_achieves_target", "distilbert_achieves_target"}

Unavailable(f) ==
  \/ ~f.exists
  \/ ~WellFormed(f.text)
  \/ ~HasKeys(json_load(f.text), {"timestamp", "test_samples", "baseline_metrics",
                                 "distilbert_metrics", "comparison"})
  \/ ~HasKeys(json_load(f.text).v.comparison, ComparisonKeys)

\* C10: when the result document is absent, unreadable or lacks required
\* fields, get_best_model_type returns None and show_model_comparison puts an
\* explicit unavailable state on the page.
C10_UnavailableIsExplicit ==
  [][/\ (DashLoadModels /\ env.models # {} /\ Unavailable(file)) =>
          dash'.best_model_type = PyNone
     /\ (DashShowComparison /\ Unavailable(file)) =>
          dash'.view \in {"info_run_evaluation", "error"}]_vars

\* ======================================================= gRPC SpamDetectorServicer
\* threads of the server's pool that the modelled requests run on
MaxCalls == 2
Workers == 1..MaxCalls

\* what can happen to one model while the servicer is constructed: the model
\* class's constructor raises (no config file), load_model raises (no model
\* files), or the model is loaded
LoadOutcomes == {"constructor_raises", "load_model_raises", "loaded"}

\* self.<model> after one try block of load_models: the attribute is assigned
\* before load_model is called, so a failed load leaves an untrained object
ModelAfterLoad(outcome) ==
  CASE outcome = "constructor_raises" -> "None"
    [] outcome = "load_model_raises" -> "untrained_object"
    [] OTHER -> "loaded_object"

AccuracyAtLoad == [baseline |-> 91, distilbert |-> 95]

\* SpamDetectorServicer.__init__ followed by load_models
load_models(install) ==
  [baseline_model |-> ModelAfterLoad(install.baseline),
   distilbert_model |-> ModelAfterLoad(install.distilbert),
   model_accuracies |->
     [k \in {m \in {"baseline", "distilbert"} : install[m] = "loaded"} |->
        AccuracyAtLoad[k]]]

\* text is kept as its pieces; the empty string has no non-empty piece
NoText == <<>>
IsEmptyText(text) == \A i \in 1..Len(text) : text[i] = ""

SpamPredictionResponse(is_spam, confidence, spam_probability, ham_probability, model_used, error_message) ==
  [is_spam |-> is_spam, confidence |-> confidence,
   spam_probability |-> spam_probability, ham_probability |-> ham_probability,
   model_used |-> model_used, error_message |-> error_message]

\* a response built from error_message alone: protobuf leaves the other fields
\* at their defaults
PredictionError(error_message) ==
  SpamPredictionResponse(FALSE, 0, 0, 0, NoText, error_message)

ModelStatusResponse(is_loaded, model_name, accuracy, error_message) ==
  [is_loaded |-> is_loaded, model_name |-> model_name, accuracy |-> accuracy,
   error_message |-> error_message]

StatusError(error_message) == ModelStatusResponse(FALSE, NoText, 0, error_message)

\* how a handler call ends
Returned(response) == [raised |-> FALSE, response |-> response]
Raised(e) == [raised |-> TRUE, response |-> e]

predict_exception_escapes(e) == Raised(e)
\* the except clause of PredictSpam
predict_exception(e) == Returned(PredictionError(<<"Error interno: ", e>>))

\* what the classifier does with one message: its prediction and the two class
\* probabilities (in hundredths), or an exception
ClassifierOutcomes ==
  {[raises |-> FALSE, pred |-> 0, prob |-> <<80, 20>>],
   [raises |-> FALSE, pred |-> 1, prob |-> <<30, 70>>],
   [raises |-> TRUE, pred |-> 0, prob |-> <<0, 0>>]}

confidence_of_spam(clf) == clf.prob[2]
\* float(prob[pred]): the probability of the predicted class
confidence_of(clf) == clf.prob[clf.pred + 1]

\* the statements shared by the two model branches of PredictSpam
use_model(model, clf, model_used) ==
  IF model = "untrained_object" THEN
    predict_exception("model is not trained")
  ELSE IF clf.raises THEN
    predict_exception("prediction failed")
  ELSE
    Returned(SpamPredictionResponse(clf.pred = 1, confidence_of(clf),
                                    clf.prob[2], clf.prob[1],
                                    <<model_used>>, NoText))

RequestedModel(request) ==
  IF request.model_type = "" THEN "baseline" ELSE request.model_type

PredictSpam(self, request, clf) ==
  LET model_type == RequestedModel(request) IN
  IF model_type = "baseline" /\ self.baseline_model # "None" THEN
    use_model(self.baseline_model, clf, "TF-IDF + Logistic Regression")
  ELSE IF model_type = "distilbert" /\ self.distilbert_model # "None" THEN
    use_model(self.distilbert_model, clf, "DistilBERT")
  ELSE
    Returned(PredictionError(<<"Modelo '", model_type, "' no disponible">>))

\* dict.get(key, 0.0)
dict_get(d, key) == IF key \in DOMAIN d THEN d[key] ELSE 0

\* last_trained, the clock's reading at the call, is left out of the response
GetModelStatus(self, request) ==
  LET model_type == RequestedModel(request) IN
  IF model_type = "baseline" THEN
    Returned(ModelStatusResponse(self.baseline_model # "None",
                                 <<"TF-IDF + Logistic Regression">>,
                                 dict_get(self.model_accuracies, "baseline"),
                                 NoText))
  ELSE IF model_type = "distilbert" THEN
    Returned(ModelStatusResponse(self.distilbert_model # "None",
                                 <<"DistilBERT">>,
                                 dict_get(self.model_accuracies, "distilbert"),
                                 NoText))
  ELSE
    Returned(StatusError(<<"Tipo de modelo desconocido: ", model_type>>))

self_after_setdefault(self, request) ==
  LET key == RequestedModel(request) IN
  IF key \in DOMAIN self.model_accuracies THEN self
  ELSE [self EXCEPT !.model_accuracies =
          [k \in DOMAIN self.model_accuracies \cup {key} |->
             dict_get(self.model_accuracies, k)]]
\* the servicer's attributes after a handler has run: both handlers only read
\* them (model_accuracies.get, attribute reads, the models' predict)
self_after_handler(self, request) == self

ModelTypes == {"", "baseline", "distilbert", "svm"}

NoCall == [pc |-> "idle", rpc |-> "none", request |-> [model_type |-> ""],
           clf |-> CHOOSE c \in ClassifierOutcomes : c.raises,
           result |-> Returned(NoText)]

ScriptsIdle ==
  /\ env = [target |-> PyFloat(TargetF1), models |-> {}, numpy |-> FALSE, rows |-> 1]
  /\ test_csv = FALSE
  /\ file = AbsentFile
  /\ pc = "not_started"
  /\ test_df = PyNone
  /\ baseline_metrics = PyNone
  /\ distilbert_metrics = PyNone
  /\ comparison = PyNone
  /\ results = PyNone
  /\ bpc = "not_started"
  /\ b_results = PyNone
  /\ dash = [baseline_model |-> FALSE, distilbert_model |-> FALSE,
             best_model_type |-> PyNone, view |-> "none", read |-> "none"]

scriptVars ==
  <<env, test_csv, file, pc, test_df, baseline_metrics, distilbert_metrics,
    comparison, results, bpc, b_results, dash>>

\* serve(): the servicer is constructed, then the pool's threads take requests
InitService ==
  /\ ScriptsIdle
  /\ ui = NotStarted
  /\ obj = NotStarted
  /\ calc = NotStarted
  /\ txt = NotStarted
  /\ split = NotStarted
  /\ \E install \in [baseline : LoadOutcomes, distilbert : LoadOutcomes] :
       svc = [install |-> install, self |-> load_models(install),
              calls |-> [w \in Workers |-> NoCall]]

\* a thread of the pool enters PredictSpam with a request
PredictSpamCalled(w) ==
  /\ svc.calls[w].pc = "idle"
  /\ \E request \in [model_type : ModelTypes], clf \in ClassifierOutcomes :
       svc' = [svc EXCEPT !.calls[w] =
                 [NoCall EXCEPT !.pc = "running", !.rpc = "PredictSpam",
                                !.request = request, !.clf = clf]]
  /\ UNCHANGED <<ui, obj, scriptVars, calc, txt, split>>

GetModelStatusCalled(w) ==
  /\ svc.calls[w].pc = "idle"
  /\ \E request \in [model_type : ModelTypes] :
       svc' = [svc EXCEPT !.calls[w] =
                 [NoCall EXCEPT !.pc = "running", !.rpc = "GetModelStatus",
                                !.request = request]]
  /\ UNCHANGED <<ui, obj, scriptVars, calc, txt, split>>

\* the thread runs the handler's body against the servicer as it is now
PredictSpamRuns(w) ==
  LET call == svc.calls[w] IN
  /\ call.pc = "running"
  /\ call.rpc = "PredictSpam"
  /\ svc' = [svc EXCEPT
               !.self = self_after_handler(svc.self, call.request),
               !.calls[w] = [call EXCEPT
                   !.pc = "returned",
                   !.result = PredictSpam(svc.self, call.request, call.clf)]]
  /\ UNCHANGED <<ui, obj, scriptVars, calc, txt, split>>

GetModelStatusRuns(w) ==
  LET call == svc.calls[w] IN
  /\ call.pc = "running"
  /\ call.rpc = "GetModelStatus"
  /\ svc' = [svc EXCEPT
               !.self = self_after_handler(svc.self, call.request),
               !.calls[w] = [call EXCEPT
                   !.pc = "returned",
                   !.result = GetModelStatus(svc.self, call.request)]]
  /\ UNCHANGED <<ui, obj, scriptVars, calc, txt, split>>

\* the response has been sent and the thread is free again
ResponseSent(w) ==
  /\ svc.calls[w].pc = "returned"
  /\ svc' = [svc EXCEPT !.calls[w] = NoCall]
  /\ UNCHANGED <<ui, obj, scriptVars, calc, txt, split>>

NextService ==
  \/ \E w \in Workers : PredictSpamCalled(w)
  \/ \E w \in Workers : GetModelStatusCalled(w)
  \/ \E w \in Workers : PredictSpamRuns(w)
  \/ \E w \in Workers : GetModelStatusRuns(w)
  \/ \E w \in Workers : ResponseSent(w)

SpecService == InitService /\ [][NextService]_vars

\* a PredictSpam call that has ended, with what it was asked and what it met
PredictSpamEnded(w) ==
  svc.calls[w].pc = "returned" /\ svc.calls[w].rpc = "PredictSpam"

ModelOf(self, model_type) ==
  CASE model_type = "baseline" -> self.baseline_model
    [] model_type = "distilbert" -> self.distilbert_model
    [] OTHER -> "None"

\* the request cannot be served: unknown model type, model not loaded, or a
\* failure inside the prediction
CannotPredict(call) ==
  \/ ModelOf(svc.self, RequestedModel(call.request)) # "loaded_object"
  \/ call.clf.raises

\* C11: every PredictSpam request whose model_type is unknown or names a model
\* that is not loaded, and every request whose prediction fails internally,
\* ends with a returned response that has a non-empty error_message and all
\* its numeric fields at zero; no PredictSpam call ends with an exception.
C11_PredictSpamErrorResponse ==
  \A w \in Workers :
    PredictSpamEnded(w) =>
      LET call == svc.calls[w] IN
      /\ ~call.result.raised
      /\ CannotPredict(call) =>
           /\ ~IsEmptyText(call.result.response.error_message)
           /\ call.result.response.is_spam = FALSE
           /\ call.result.response.confidence = 0
           /\ call.result.response.spam_probability = 0
           /\ call.result.response.ham_probability = 0

\* a request for a model whose load failed at construction has been answered,
\* and so has one whose prediction failed on a loaded model
C11_LoadFailedModelAsked ==
  /\ PredictSpamEnded(1)
  /\ ModelOf(svc.self, RequestedModel(svc.calls[1].request)) = "untrained_object"
  /\ PredictSpamEnded(2)
  /\ ModelOf(svc.self, RequestedModel(svc.calls[2].request)) = "loaded_object"
  /\ svc.calls[2].clf.raises

\* the response the call would get if it were the only one the servicer ever ran
AloneResult(call) ==
  IF call.rpc = "PredictSpam"
  THEN PredictSpam(load_models(svc.install), call.request, call.clf)
  ELSE GetModelStatus(load_models(svc.install), call.request)

\* C12: the handlers share no mutable state: after construction no handler
\* writes baseline_model, distilbert_model or model_accuracies, so under any
\* interleaving of the pool's threads every call returns the response it
\* returns when it runs alone.
C12_HandlersOnlyRead ==
  /\ svc.self = load_models(svc.install)
  /\ \A w \in Workers :
       svc.calls[w].pc = "returned" => svc.calls[w].result = AloneResult(svc.calls[w])

\* a status request has been answered while a prediction on the same model,
\* entered before it, is still running on another thread
C12_AnsweredWhileOtherRuns ==
  /\ svc.calls[1].pc = "running"
  /\ svc.calls[1].rpc = "PredictSpam"
  /\ svc.calls[2].pc = "returned"
  /\ svc.calls[2].rpc = "GetModelStatus"
  /\ RequestedModel(svc.calls[1].request) = RequestedModel(svc.calls[2].request)
  /\ RequestedModel(svc.calls[2].request) \notin DOMAIN svc.self.model_accuracies

\* ============================================== evaluate of the two classifiers
\* largest test set the classifiers are evaluated on
MaxRows == 3

\* sklearn's floating point results, kept exact as fractions n/d with d > 0
Frac(n, d) == [n |-> n, d |-> d]
FracEq(a, b) == a.n * b.d = b.n * a.d
FracAdd(a, b) == Frac(a.n * b.d + b.n * a.d, a.d * b.d)
FracMul(a, b) == Frac(a.n * b.n, a.d * b.d)

\* sklearn.utils.multiclass.unique_labels: the sorted labels that occur in
\* y_true or y_pred
unique_labels(y_true, y_pred) ==
  LET present == {y_true[i] : i \in 1..Len(y_true)} \cup
                 {y_pred[i] : i \in 1..Len(y_pred)}
  IN IF present = {0, 1} THEN <<0, 1>>
     ELSE IF present = {0} THEN <<0>>
     ELSE IF present = {1} THEN <<1>>
     ELSE <<>>

\* number of examples with true label t predicted as p
Count(y_true, y_pred, t, p) ==
  Cardinality({i \in 1..Len(y_true) : y_true[i] = t /\ y_pred[i] = p})

\* sklearn.metrics.confusion_matrix(y_true, y_pred).tolist(): one row and one
\* column per label of unique_labels
confusion_matrix(y_true, y_pred) ==
  LET labels == unique_labels(y_true, y_pred) IN
  [i \in 1..Len(labels) |->
     [j \in 1..Len(labels) |-> Count(y_true, y_pred, labels[i], labels[j])]]

tp_sum(y_true, y_pred, c) == Count(y_true, y_pred, c, c)
pred_sum(y_true, y_pred, c) == Cardinality({i \in 1..Len(y_pred) : y_pred[i] = c})
true_sum(y_true, y_pred, c) == Cardinality({i \in 1..Len(y_true) : y_true[i] = c})

\* sklearn's _prf_divide with zero_division="warn": 0.0 where the denominator is 0
prf_divide(numerator, denominator) ==
  IF denominator = 0 THEN Frac(0, 1) ELSE Frac(numerator, denominator)

precision_of(y_true, y_pred, c) ==
  prf_divide(tp_sum(y_true, y_pred, c), pred_sum(y_true, y_pred, c))
recall_of(y_true, y_pred, c) ==
  prf_divide(tp_sum(y_true, y_pred, c), true_sum(y_true, y_pred, c))
fscore_of(y_true, y_pred, c) ==
  prf_divide(2 * tp_sum(y_true, y_pred, c),
             true_sum(y_true, y_pred, c) + pred_sum(y_true, y_pred, c))

\* one of the three scores that precision_recall_fscore_support returns
score_of(y_true, y_pred, c, metric) ==
  CASE metric = "precision" -> precision_of(y_true, y_pred, c)
    [] metric = "recall" -> recall_of(y_true, y_pred, c)
    [] metric = "fscore" -> fscore_of(y_true, y_pred, c)

\* precision_recall_fscore_support(..., average=None): one value per label of
\* unique_labels, in that order
per_label(y_true, y_pred, metric) ==
  LET labels == unique_labels(y_true, y_pred) IN
  [i \in 1..Len(labels) |-> score_of(y_true, y_pred, labels[i], metric)]

\* average="weighted": the per-label values weighted by the labels' support
weighted_average(y_true, y_pred, metric) ==
  LET labels == unique_labels(y_true, y_pred)
      term(c) == FracMul(Frac(true_sum(y_true, y_pred, c), Len(y_true)),
                         score_of(y_true, y_pred, c, metric))
  IN IF Len(labels) = 2 THEN FracAdd(term(labels[1]), term(labels[2]))
     ELSE term(labels[1])

f1_score_weighted(y_true, y_pred) == weighted_average(y_true, y_pred, "fscore")
\* f1_score(y_true, y_pred) with its defaults average="binary", pos_label=1:
\* the F1 of class 1 alone
f1_score(y_true, y_pred) == fscore_of(y_true, y_pred, 1)

accuracy_score(y_true, y_pred) ==
  Frac(Cardinality({i \in 1..Len(y_true) : y_true[i] = y_pred[i]}), Len(y_true))

\* classification_report(y_true, y_pred, target_names=["Ham", "Spam"],
\* output_dict=True): raises ValueError unless unique_labels has as many labels
\* as there are target names
classification_report(y_true, y_pred) ==
  LET labels == unique_labels(y_true, y_pred)
      row(c) == [precision |-> precision_of(y_true, y_pred, c),
                 recall |-> recall_of(y_true, y_pred, c),
                 f1_score |-> fscore_of(y_true, y_pred, c),
                 support |-> true_sum(y_true, y_pred, c)]
  IN IF Len(labels) # 2
     THEN Raised("Number of classes does not match size of target_names")
     ELSE Returned([Ham |-> row(labels[1]), Spam |-> row(labels[2]),
                    accuracy |-> accuracy_score(y_true, y_pred)])

\* BaselineModel.evaluate on a trained model, from the labels and predictions on
\* (classification_report inside the returned dict is left out)
baseline_evaluate(y_test, predictions) ==
  LET f1 == f1_score(y_test, predictions)
      report == classification_report(y_test, predictions)
      cm == confusion_matrix(y_test, predictions)
  IN IF report.raised THEN report
     ELSE Returned([f1_score |-> f1,
                    accuracy |-> report.response.accuracy,
                    precision_ham |-> report.response.Ham.precision,
                    recall_ham |-> report.response.Ham.recall,
                    precision_spam |-> report.response.Spam.precision,
                    recall_spam |-> report.response.Spam.recall,
                    confusion_matrix |-> cm])

\* a[index] if len(a) > index else 0, with Python's 0-based index
ItemOrZero(a, index) == IF Len(a) > index THEN a[index + 1] ELSE Frac(0, 1)

\* DistilBERTModel.evaluate on a trained model, from the labels and predictions on
distilbert_evaluate(y_test, predictions) ==
  LET precision_class == per_label(y_test, predictions, "precision")
      recall_class == per_label(y_test, predictions, "recall")
  IN Returned([f1_score |-> f1_score_weighted(y_test, predictions),
               accuracy |-> accuracy_score(y_test, predictions),
               precision |-> weighted_average(y_test, predictions, "precision"),
               recall |-> weighted_average(y_test, predictions, "recall"),
               precision_ham |-> ItemOrZero(precision_class, 0),
               recall_ham |-> ItemOrZero(recall_class, 0),
               precision_spam |-> ItemOrZero(precision_class, 1),
               recall_spam |-> ItemOrZero(recall_class, 1),
               confusion_matrix |-> confusion_matrix(y_test, predictions)])

\* a test set with its label_binary column, and what a trained classifier
\* predicts for its rows
\* placeholder for the metrics of a classifier that has not been evaluated yet
NotEvaluated == Returned(NoText)

InitMetrics ==
  /\ ScriptsIdle
  /\ ui = NotStarted
  /\ obj = NotStarted
  /\ svc = NotStarted
  /\ txt = NotStarted
  /\ split = NotStarted
  /\ \E n \in 1..MaxRows : \E y_test \in [1..n -> {0, 1}], predictions \in [1..n -> {0, 1}] :
       /\ calc = [y_test |-> y_test, predictions |-> predictions,
                  evaluated |-> {}, baseline |-> NotEvaluated,
                  distilbert |-> NotEvaluated]

BaselineEvaluates ==
  /\ "baseline" \notin calc.evaluated
  /\ calc' = [calc EXCEPT
                !.evaluated = @ \cup {"baseline"},
                !.baseline = baseline_evaluate(calc.y_test, calc.predictions)]
  /\ UNCHANGED <<ui, obj, scriptVars, svc, txt, split>>

DistilbertEvaluates ==
  /\ "distilbert" \notin calc.evaluated
  /\ calc' = [calc EXCEPT
                !.evaluated = @ \cup {"distilbert"},
                !.distilbert = distilbert_evaluate(calc.y_test, calc.predictions)]
  /\ UNCHANGED <<ui, obj, scriptVars, svc, txt, split>>

NextMetrics ==
  \/ BaselineEvaluates
  \/ DistilbertEvaluates

SpecMetrics == InitMetrics /\ [][NextMetrics]_vars

\* evaluate of the classifier has returned its metrics
BaselineReported == "baseline" \in calc.evaluated /\ ~calc.baseline.raised
DistilbertReported == "distilbert" \in calc.evaluated /\ ~calc.distilbert.raised

\* F1 of one class from the counts: 2 TP / (2 TP + FP + FN), 0 when that is 0/0
ClassF1(c) ==
  LET TP == Count(calc.y_test, calc.predictions, c, c)
      FP == Count(calc.y_test, calc.predictions, 1 - c, c)
      FN == Count(calc.y_test, calc.predictions, c, 1 - c)
  IN IF 2 * TP + FP + FN = 0 THEN Frac(0, 1) ELSE Frac(2 * TP, 2 * TP + FP + FN)

Support(c) == Count(calc.y_test, calc.predictions, c, 0) +
              Count(calc.y_test, calc.predictions, c, 1)

SupportWeightedF1 ==
  FracAdd(FracMul(Frac(Support(0), Len(calc.y_test)), ClassF1(0)),
          FracMul(Frac(Support(1), Len(calc.y_test)), ClassF1(1)))

\* C13: the top-level f1_score that evaluate reports is, for each of the two
\* classifiers, the support-weighted average of the two per-class F1 scores.
C13_F1IsSupportWeighted ==
  /\ BaselineReported => FracEq(calc.baseline.response.f1_score, SupportWeightedF1)
  /\ DistilbertReported => FracEq(calc.distilbert.response.f1_score, SupportWeightedF1)

\* the metrics dicts that have been returned so far
ReportedMetrics ==
  {calc[m].response : m \in {m \in calc.evaluated : ~calc[m].raised}}

\* the matrix has one row and one column for each of the two classes
IsTwoByTwo(cm) == Len(cm) = 2 /\ \A i \in 1..Len(cm) : Len(cm[i]) = 2

\* C14: in every evaluation confusion_matrix[i][j] is the number of test
\* examples with true label i that were predicted as j, so that the entries sum
\* to the number of test examples, and the reported accuracy equals
\* (cm[0][0] + cm[1][1]) / total.
C14_ConfusionMatrixCounts ==
  \A metrics \in ReportedMetrics :
    LET cm == metrics.confusion_matrix IN
    /\ IsTwoByTwo(cm)
    /\ \A i, j \in {0, 1} : cm[i + 1][j + 1] = Count(calc.y_test, calc.predictions, i, j)
    /\ cm[1][1] + cm[1][2] + cm[2][1] + cm[2][2] = Len(calc.y_test)
    /\ FracEq(metrics.accuracy, Frac(cm[1][1] + cm[2][2], Len(calc.y_test)))

\* C15: on any non-empty test set where the predictions equal the true labels,
\* a single-class test set included, evaluate returns f1_score 1.0, accuracy
\* 1.0 and a confusion matrix whose off-diagonal entries are zero.
C15_PerfectPredictions ==
  calc.y_test = calc.predictions =>
    \A m \in calc.evaluated :
      /\ ~calc[m].raised
      /\ FracEq(calc[m].response.f1_score, Frac(1, 1))
      /\ FracEq(calc[m].response.accuracy, Frac(1, 1))
      /\ LET cm == calc[m].response.confusion_matrix IN
         \A i \in 1..Len(cm) : \A j \in 1..Len(cm[i]) : i # j => cm[i][j] = 0

\* TP / (TP + FP) and TP / (TP + FN) of class c from the counts, 0 on 0/0
ClassPrecision(c) ==
  LET TP == Count(calc.y_test, calc.predictions, c, c)
      FP == Count(calc.y_test, calc.predictions, 1 - c, c)
  IN IF TP + FP = 0 THEN Frac(0, 1) ELSE Frac(TP, TP + FP)

ClassRecall(c) ==
  LET TP == Count(calc.y_test, calc.predictions, c, c)
      FN == Count(calc.y_test, calc.predictions, c, 1 - c)
  IN IF TP + FN = 0 THEN Frac(0, 1) ELSE Frac(TP, TP + FN)

IsNumberFrac(x) == x.d # 0

\* C16: the reported per-class precision is TP / (TP + FP) and the per-class
\* recall TP / (TP + FN); when a denominator is 0 the reported value is 0, and
\* it is never NaN or missing.
C16_PerClassPrecisionRecall ==
  \A metrics \in ReportedMetrics :
    /\ IsNumberFrac(metrics.precision_ham) /\ IsNumberFrac(metrics.recall_ham)
    /\ IsNumberFrac(metrics.precision_spam) /\ IsNumberFrac(metrics.recall_spam)
    /\ FracEq(metrics.precision_ham, ClassPrecision(0))
    /\ FracEq(metrics.recall_ham, ClassRecall(0))
    /\ FracEq(metrics.precision_spam, ClassPrecision(1))
    /\ FracEq(metrics.recall_spam, ClassRecall(1))

\* ================================================= DataPreprocessor.clean_text
\* longest message text that is cleaned
MaxLen == 3

\* a str is the sequence of its characters; the characters tried: letters in
\* both cases, a digit, the space, another whitespace character, punctuation
Alphabet == {"a", "B", "7", " ", "\t", "!"}

\* float("nan"), what pandas puts in an empty cell
NaN == [t |-> "float", v |-> "nan"]

\* the values a cell of the message column can hold
MessageCells ==
  {PyStr(s) : s \in UNION {[1..n -> Alphabet] : n \in 0..MaxLen}} \cup {NaN, PyNone}

isna_never(text) == FALSE
\* pd.isna on a scalar
isna(text) ==
  IF text.t = "None" THEN TRUE
  ELSE IF text.t = "float" THEN text.v = "nan"
  ELSE FALSE

\* str.lower on one character
LowerChar(c) == IF c = "B" THEN "b" ELSE c
lower(s) == [i \in 1..Len(s) |-> LowerChar(s[i])]

\* the character classes of the two patterns: a-zA-Z0-9 and \s
IsAlnum(c) == c \in {"a", "b", "B", "7"}
IsSpace(c) == c \in {" ", "\t"}

is_kept_space_only(c) == IsAlnum(c) \/ c = " "
\* a character that [^a-zA-Z0-9\s] does not match
is_kept(c) == IsAlnum(c) \/ IsSpace(c)

\* re.sub(r"[^a-zA-Z0-9\s]", "", text)
remove_special(s) == SelectSeq(s, is_kept)

RECURSIVE lstrip(_)
lstrip(s) ==
  IF s = <<>> THEN <<>>
  ELSE IF IsSpace(Head(s)) THEN lstrip(Tail(s))
  ELSE s

\* re.sub(r"\s+", " ", text): every maximal run of whitespace becomes one space
RECURSIVE collapse_spaces(_)
collapse_spaces(s) ==
  IF s = <<>> THEN <<>>
  ELSE IF IsSpace(Head(s)) THEN <<" ">> \o collapse_spaces(lstrip(Tail(s)))
  ELSE <<Head(s)>> \o collapse_spaces(Tail(s))

RECURSIVE rstrip(_)
rstrip(s) ==
  IF s = <<>> THEN <<>>
  ELSE IF IsSpace(s[Len(s)]) THEN rstrip(SubSeq(s, 1, Len(s) - 1))
  ELSE s

strip_leading_only(s) == lstrip(s)
\* str.strip()
strip(s) == rstrip(lstrip(s))

clean_text(text) ==
  IF isna(text) THEN Returned(PyStr(<<>>))
  ELSE IF text.t # "str" THEN Raised("AttributeError: no attribute 'lower'")
  ELSE Returned(PyStr(strip(collapse_spaces(remove_special(lower(text.v))))))

NotCleaned == Returned(PyNone)

InitText ==
  /\ ScriptsIdle
  /\ ui = NotStarted
  /\ obj = NotStarted
  /\ svc = NotStarted
  /\ calc = NotStarted
  /\ split = NotStarted
  /\ \E text \in MessageCells :
       txt = [text |-> text, called |-> FALSE, result |-> NotCleaned,
              again_called |-> FALSE, again |-> NotCleaned]

\* preprocess_data applies clean_text to the cell
CleanText ==
  /\ ~txt.called
  /\ txt' = [txt EXCEPT !.called = TRUE, !.result = clean_text(txt.text)]
  /\ UNCHANGED <<ui, obj, scriptVars, svc, calc, split>>

\* preprocess_data run on a frame whose messages are already clean: clean_text
\* is applied to what it returned
CleanTextAgain ==
  /\ txt.called
  /\ ~txt.result.raised
  /\ ~txt.again_called
  /\ txt' = [txt EXCEPT !.again_called = TRUE,
                        !.again = clean_text(txt.result.response)]
  /\ UNCHANGED <<ui, obj, scriptVars, svc, calc, split>>

NextText ==
  \/ CleanText
  \/ CleanTextAgain

SpecText == InitText /\ [][NextText]_vars

\* clean_text has been called on a str and has returned
CleanedString == txt.called /\ txt.text.t = "str" /\ ~txt.result.raised

\* the reference procedure of the claim: lowercase, drop every character outside
\* [a-zA-Z0-9 ], collapse whitespace runs, trim
OutsideSpaceClass(c) == IsAlnum(c) \/ c = " "
Reference(s) == strip(collapse_spaces(SelectSeq(lower(s), OutsideSpaceClass)))

\* C17 as stated: for every input string the result of clean_text equals the
\* reference procedure that lowercases, removes every character outside
\* [a-zA-Z0-9 ] (the space being the only non-alphanumeric character kept),
\* collapses whitespace runs to one space and trims.
C17_EqualsSpaceOnlyReference ==
  CleanedString => txt.result.response.v = Reference(txt.text.v)

\* the words of a text: its maximal runs of non-whitespace characters, each
\* lowercased and without its non-alphanumeric characters, empty ones dropped
RECURSIVE Words(_, _)
Words(s, word) ==
  IF s = <<>> THEN (IF word = <<>> THEN <<>> ELSE <<word>>)
  ELSE IF IsSpace(Head(s))
       THEN (IF word = <<>> THEN <<>> ELSE <<word>>) \o Words(Tail(s), <<>>)
  ELSE IF IsAlnum(Head(s)) THEN Words(Tail(s), Append(word, LowerChar(Head(s))))
  ELSE Words(Tail(s), word)

RECURSIVE JoinWords(_)
JoinWords(words) ==
  IF words = <<>> THEN <<>>
  ELSE IF Len(words) = 1 THEN words[1]
  ELSE words[1] \o <<" ">> \o JoinWords(Tail(words))

\* C17 amended: clean_text lowercases, removes every character that is neither
\* an ASCII letter or digit nor whitespace (tabs and other whitespace are kept
\* like the space), collapses whitespace runs to one space and trims: the
\* result is the text's words, separated at any whitespace, joined by one space.
C17_EqualsWhitespaceReference ==
  CleanedString => txt.result.response.v = JoinWords(Words(txt.text.v, <<>>))

\* a text with a tab between two alphanumeric characters has been cleaned
C17_TabBetweenWords ==
  /\ CleanedString
  /\ \E i \in 2..(Len(txt.text.v) - 1) :
       /\ txt.text.v[i] = "\t"
       /\ IsAlnum(txt.text.v[i - 1])
       /\ IsAlnum(txt.text.v[i + 1])

\* nothing of the text survives cleaning: no letter and no digit in it
NothingToKeep(text) ==
  isna(text) \/ (text.t = "str" /\ \A i \in 1..Len(text.v) : ~IsAlnum(text.v[i]))

\* C18: clean_text is total: for every input it returns a string without
\* raising, and it returns the empty string for empty, NaN and all-punctuation
\* or all-whitespace input.
C18_CleanTextTotal ==
  txt.called =>
    /\ ~txt.result.raised
    /\ txt.result.response.t = "str"
    /\ NothingToKeep(txt.text) => txt.result.response.v = <<>>

\* clean_text has been called on NaN
C18_CleanedNaN == txt.called /\ txt.text.t = "float" /\ isna(txt.text)

\* ================================================= DataPreprocessor.split_data
\* most rows of the preprocessed dataframe, and calls of split_data on it
MaxMessages == 6
MaxSplits == 2

\* data.test_size in hundredths and data.random_state
TestSizes == {0, 20, 50, 100}
Seeds == {0, 1, 42}

\* a numpy RandomState: its position in its stream, and whether it is the
\* process-wide generator (np.random) or one made for a seed
RngPeriod == 5
RngAt(rng, k) == [rng EXCEPT !.state = (@ + k) % RngPeriod]

check_random_state_unseeded(seed, global_rng) == [state |-> global_rng, shared |-> TRUE]
\* sklearn's check_random_state on the int that split_data passes as
\* random_state: a new generator seeded with it
check_random_state(seed, global_rng) == [state |-> seed % RngPeriod, shared |-> FALSE]

\* rng.permutation(items): the order depends on the generator's position
permutation(rng, items) ==
  [i \in 1..Len(items) |-> items[((i - 1 + rng.state) % Len(items)) + 1]]

\* positions of the rows labelled c, ascending
class_indices(y, c) == SelectSeq([i \in 1..Len(y) |-> i], LAMBDA i : y[i] = c)

\* sklearn's _approximate_mode for two classes: n_draws shared out in
\* proportion to the class counts, the odd one to the larger remainder, a tie
\* decided by the generator
approximate_mode(class_counts, n_draws, rng) ==
  LET total == class_counts[1] + class_counts[2]
      floored == [c \in 1..2 |-> (class_counts[c] * n_draws) \div total]
      remainder == [c \in 1..2 |-> (class_counts[c] * n_draws) % total]
      first == IF remainder[1] > remainder[2] THEN TRUE
               ELSE IF remainder[2] > remainder[1] THEN FALSE
               ELSE rng.state % 2 = 0
  IN IF floored[1] + floored[2] = n_draws THEN floored
     ELSE IF first THEN <<floored[1] + 1, floored[2]>>
     ELSE <<floored[1], floored[2] + 1>>

test_slice_from_start(perm, n_i, t_i) == SubSeq(perm, 1, t_i)
\* perm[n_i : n_i + t_i], the rows of a class that go to the test set
test_slice(perm, n_i, t_i) == SubSeq(perm, n_i + 1, n_i + t_i)

\* StratifiedShuffleSplit: the train and test positions
stratified_shuffle_split(y, n_train, n_test, rng) ==
  LET indices == <<class_indices(y, 0), class_indices(y, 1)>>
      class_counts == <<Len(indices[1]), Len(indices[2])>>
      n_i == approximate_mode(class_counts, n_train, RngAt(rng, 0))
      remaining == <<class_counts[1] - n_i[1], class_counts[2] - n_i[2]>>
      t_i == approximate_mode(remaining, n_test, RngAt(rng, 1))
      perm == [c \in 1..2 |-> permutation(RngAt(rng, 1 + c), indices[c])]
      train == SubSeq(perm[1], 1, n_i[1]) \o SubSeq(perm[2], 1, n_i[2])
      test == test_slice(perm[1], n_i[1], t_i[1]) \o
              test_slice(perm[2], n_i[2], t_i[2])
  IN [train |-> permutation(RngAt(rng, 4), train),
      test |-> permutation(RngAt(rng, 5), test)]

\* sklearn's train_test_split(df, test_size=..., random_state=..., stratify=y)
\* with a float test_size; rows are named by their position in df
train_test_split(y, test_size, rng) ==
  LET n_samples == Len(y)
      n_test == (test_size * n_samples + 99) \div 100
      n_train == n_samples - n_test
      counts == {Len(class_indices(y, c)) : c \in {0, 1}} \ {0}
      n_classes == Cardinality({c \in {0, 1} : Len(class_indices(y, c)) > 0})
  IN IF test_size <= 0 \/ test_size >= 100
       THEN Raised("ValueError: test_size should be in the (0, 1) range")
     ELSE IF n_train = 0
       THEN Raised("ValueError: the resulting train set will be empty")
     ELSE IF \E count \in counts : count < 2
       THEN Raised("ValueError: the least populated class has only 1 member")
     ELSE IF n_train < n_classes \/ n_test < n_classes
       THEN Raised("ValueError: fewer samples than classes")
     ELSE Returned(stratified_shuffle_split(y, n_train, n_test, rng))

\* the process-wide generator after a call that drew from rng
global_rng_after(global_rng, rng) ==
  IF rng.shared THEN RngAt(rng, 6).state ELSE global_rng

split_data(df, config, global_rng) ==
  train_test_split(df, config.test_size,
                   check_random_state(config.random_state, global_rng))

InitSplit ==
  /\ ScriptsIdle
  /\ ui = NotStarted
  /\ obj = NotStarted
  /\ svc = NotStarted
  /\ calc = NotStarted
  /\ txt = NotStarted
  /\ \E n \in 1..MaxMessages : \E df \in [1..n -> {0, 1}], test_size \in TestSizes, random_state \in Seeds :
       split = [df |-> df,
                config |-> [test_size |-> test_size, random_state |-> random_state],
                global_rng |-> 0,
                calls |-> <<>>]

SplitData ==
  /\ Len(split.calls) < MaxSplits
  /\ split' = [split EXCEPT
       !.calls = Append(@, split_data(split.df, split.config, split.global_rng)),
       !.global_rng = global_rng_after(@,
           check_random_state(split.config.random_state, split.global_rng))]
  /\ UNCHANGED <<ui, obj, scriptVars, svc, calc, txt>>

NextSplit == SplitData

SpecSplit == InitSplit /\ [][NextSplit]_vars

Elements(seq) == {seq[i] : i \in 1..Len(seq)}

\* C19: split_data partitions its input: every row of the input is in exactly
\* one of train and test, so the two are disjoint and together cover the
\* input exactly once.
C19_SplitIsPartition ==
  \A k \in 1..Len(split.calls) :
    ~split.calls[k].raised =>
      LET train == split.calls[k].response.train
          test == split.calls[k].response.test
      IN /\ Elements(train) \cap Elements(test) = {}
         /\ Elements(train) \cup Elements(test) = 1..Len(split.df)
         /\ Len(train) + Len(test) = Len(split.df)

\* a dataframe of the largest size with both classes has been split
C19_BothClassesSplit ==
  /\ Len(split.calls) >= 1
  /\ ~split.calls[1].raised
  /\ Len(split.df) = MaxMessages
  /\ \E i, j \in Elements(split.calls[1].response.test) :
       split.df[i] = 0 /\ split.df[j] = 1

\* C20: split_data is deterministic: two calls with the same input, the same
\* test fraction and the same seed return the same train and test partitions,
\* in the same order.
C20_SplitIsDeterministic ==
  Len(split.calls) = 2 => split.calls[1] = split.calls[2]

\* the same dataframe has been split twice, into orders other than the input's
C20_SplitTwice ==
  /\ Len(split.calls) = 2
  /\ ~split.calls[1].raised
  /\ ~split.calls[2].raised
  /\ \E i \in 2..Len(split.calls[2].response.train) :
       split.calls[2].response.train[i - 1] > split.calls[2].response.train[i]

\* one of the two label partitions of the dataframe has no row
EmptyLabelPartition == \E c \in {0, 1} : \A i \in 1..Len(split.df) : split.df[i] # c

\* C21: split_data fails with an error and returns no partition whenever the
\* configured test fraction is outside the open interval (0, 1), and whenever
\* one of the two label partitions is empty.
C21_SplitFailsOnBadInput ==
  \A k \in 1..Len(split.calls) :
    (\/ split.config.test_size <= 0
     \/ split.config.test_size >= 100
     \/ EmptyLabelPartition) => split.calls[k].raised

\* a GetModelStatus call for one of the two model types that has ended
StatusEnded(w) ==
  /\ svc.calls[w].pc = "returned"
  /\ svc.calls[w].rpc = "GetModelStatus"
  /\ RequestedModel(svc.calls[w].request) \in {"baseline", "distilbert"}

\* C27: GetModelStatus reports is_loaded = true for a model type only if that
\* model's load_model completed at servicer start-up; a model whose load failed
\* is reported with is_loaded = false, as PredictSpam answers with an error
\* for it.
C27_IsLoadedMeansLoaded ==
  \A w \in Workers :
    StatusEnded(w) =>
      (svc.calls[w].result.response.is_loaded <=>
         svc.install[RequestedModel(svc.calls[w].request)] = "loaded")

\* the model names the responses carry
ModelNames == [baseline |-> <<"TF-IDF + Logistic Regression">>,
               distilbert |-> <<"DistilBERT">>]

\* a PredictSpam call that ended with an empty error_message
PredictSucceeded(w) ==
  PredictSpamEnded(w) /\ IsEmptyText(svc.calls[w].result.response.error_message)

\* C30: in every successful PredictSpam response is_spam is true exactly when
\* the predicted class is 1, confidence is the probability of the predicted
\* class (spam_probability when is_spam, ham_probability otherwise), model_used
\* names the model the request's model_type selects, and an empty model_type
\* is served by the baseline model.
C30_SuccessfulResponseFields ==
  \A w \in Workers :
    PredictSucceeded(w) =>
      LET call == svc.calls[w]
          response == call.result.response
          selected == IF call.request.model_type = "" THEN "baseline"
                      ELSE call.request.model_type
      IN /\ response.is_spam <=> call.clf.pred = 1
         /\ response.spam_probability = call.clf.prob[2]
         /\ response.ham_probability = call.clf.prob[1]
         /\ response.confidence = IF response.is_spam THEN response.spam_probability
                                  ELSE response.ham_probability
         /\ selected \in DOMAIN ModelNames
         /\ response.model_used = ModelNames[selected]

\* a request with an empty model_type was answered with a ham prediction, and
\* one for distilbert with a spam prediction
C30_BothModelsAnswered ==
  /\ PredictSucceeded(1)
  /\ svc.calls[1].request.model_type = ""
  /\ ~svc.calls[1].result.response.is_spam
  /\ PredictSucceeded(2)
  /\ svc.calls[2].request.model_type = "distilbert"
  /\ svc.calls[2].result.response.is_spam

\* clean_text has returned a string, and has been applied to that string again
CleanedTwice == txt.again_called /\ ~txt.result.raised

\* the characters of [a-z0-9 ] among those tried
InNormalClass(c) == c \in {"a", "b", "7", " "}

\* only characters of [a-z0-9 ], no space first or last, no two spaces in a row
IsNormalForm(s) ==
  /\ \A i \in 1..Len(s) : InNormalClass(s[i])
  /\ s # <<>> => s[1] # " " /\ s[Len(s)] # " "
  /\ \A i \in 2..Len(s) : ~(s[i - 1] = " " /\ s[i] = " ")

C23_CompareModelsPure ==
  [][RunCompare =>
       /\ baseline_metrics' = baseline_metrics
       /\ distilbert_metrics' = distilbert_metrics
       /\ env' = env
       /\ results' = results
       /\ comparison' =
            compare_models(baseline_metrics', distilbert_metrics', env'.target)]_vars

\* compare_models has compared a baseline dict that has no precision key, which
\* it read with a default, with a DistilBERT dict
C23_ComparedWithDefaults ==
  /\ Compared
  /\ pc = "compared"
  /\ "precision" \notin DOMAIN baseline_metrics.v
  /\ "precision" \in DOMAIN distilbert_metrics.v

\* ======================================================= dashboard message form
\* Every interaction reruns main_interface from the top against session_state.
\* texts the form is tried with: empty, blank, and two messages, one of them
\* with a space after it
FormTexts == {<<>>, <<" ">>, <<"a">>, <<"a", " ">>, <<"7">>}
Examples == {<<"a">>, <<"7">>}

NoModel == "None"
NoResult == [result |-> "None", text |-> <<>>, model |-> NoModel]

\* selected_model at the end of the sidebar block: the selectbox's choice when
\* both models are loaded, the only loaded model otherwise, None without models
selected_model_of(models, choice) ==
  IF models = {} THEN NoModel
  ELSE IF Cardinality(models) > 1 THEN choice
  ELSE CHOOSE m \in models : TRUE

\* predict_with_model's first value as the form sees it: "ERROR" when the model
\* is not loaded or anything raises, else the outcome of the prediction
predict_with_model(models, model_type, outcome) ==
  IF model_type \in models THEN outcome ELSE "ERROR"

\* session_state.last_result after the analyze block
last_result_after(last_result, analyze_button, user_input, selected_model, result) ==
  IF analyze_button /\ strip(user_input) # <<>> THEN
    IF result # "ERROR"
    THEN [result |-> result, text |-> strip(user_input), model |-> selected_model]
    ELSE NoResult
  ELSE last_result

should_display_any(last_result, user_input) == last_result # NoResult
\* the condition under which the result block is rendered
should_display(last_result, user_input) ==
  last_result # NoResult /\ last_result.text = strip(user_input)

\* main_interface from the text area on, with the text area returning
\* user_input; it is not reached when no model is selected
form_rerun(state, user_input, analyze_button, outcome) ==
  LET selected_model == selected_model_of(state.models, state.choice)
      result == predict_with_model(state.models, selected_model, outcome)
      last_result == last_result_after(state.last_result, analyze_button,
                                       user_input, selected_model, result)
  IN IF selected_model = NoModel
     THEN [state EXCEPT !.displayed = NoResult, !.analyzed = "no"]
     ELSE [state EXCEPT
             !.message_text = user_input,
             !.user_input = user_input,
             !.last_result = last_result,
             !.analyzed = IF analyze_button /\ strip(user_input) # <<>>
                          THEN result ELSE "no",
             !.displayed = IF should_display(last_result, user_input)
                           THEN last_result ELSE NoResult]

InitDashboard ==
  /\ env = [target |-> PyFloat(TargetF1), models |-> {}, numpy |-> FALSE, rows |-> 1]
  /\ test_csv = FALSE
  /\ file \in InitialFiles
  /\ pc = "not_started"
  /\ test_df = PyNone
  /\ baseline_metrics = PyNone
  /\ distilbert_metrics = PyNone
  /\ comparison = PyNone
  /\ results = PyNone
  /\ bpc = "not_started"
  /\ b_results = PyNone
  /\ dash = [baseline_model |-> FALSE, distilbert_model |-> FALSE,
             best_model_type |-> PyNone, view |-> "none", read |-> "none"]
  /\ svc = NotStarted
  /\ calc = NotStarted
  /\ txt = NotStarted
  /\ split = NotStarted
  /\ obj = NotStarted
  /\ ui = [message_text |-> <<>>, user_input |-> <<>>, models |-> {},
           choice |-> "baseline", last_result |-> NoResult,
           analyzed |-> "no", displayed |-> NoResult]

formFrame ==
  <<env, test_csv, runVars, baseVars, dash, svc, calc, txt, split, obj>>

\* "Cargar Modelos": load_models stores the models that load, get_best_model_type
\* reads the results file, and the rest of the script runs
UiLoadModels ==
  /\ \E loaded \in SUBSET {"baseline", "distilbert"} :
       ui' = form_rerun([ui EXCEPT !.models = @ \cup loaded], ui.user_input,
                        FALSE, "HAM")
  /\ file' = file_after_read(file)
  /\ UNCHANGED formFrame

\* the selectbox is changed
UiSelectModel ==
  /\ Cardinality(ui.models) > 1
  /\ \E m \in ui.models :
       ui' = form_rerun([ui EXCEPT !.choice = m], ui.user_input, FALSE, "HAM")
  /\ file' = file_after_read(file)
  /\ UNCHANGED formFrame

\* the text area is edited
UiEditText ==
  /\ ui.models # {}
  /\ \E text \in FormTexts : ui' = form_rerun(ui, text, FALSE, "HAM")
  /\ file' = file_after_read(file)
  /\ UNCHANGED formFrame

\* an example button or "Limpiar": message_text is set and st.rerun() starts
\* the script again; the text area then shows the new message_text or, where
\* the keyed widget keeps its own value, what it held before
UiExampleOrClear ==
  /\ ui.models # {}
  /\ \E text \in Examples \cup {<<>>} : \E user_input \in {text, ui.user_input} :
       ui' = form_rerun([ui EXCEPT !.message_text = text], user_input, FALSE, "HAM")
  /\ file' = file_after_read(file)
  /\ UNCHANGED formFrame

\* "Analizar Mensaje" is pressed
UiAnalyze ==
  /\ ui.models # {}
  /\ \E outcome \in {"HAM", "SPAM", "ERROR"} :
       ui' = form_rerun(ui, ui.user_input, TRUE, outcome)
  /\ file' = file_after_read(file)
  /\ UNCHANGED formFrame

NextDashboard ==
  \/ UiLoadModels
  \/ UiSelectModel
  \/ UiEditText
  \/ UiExampleOrClear
  \/ UiAnalyze

SpecDashboard == InitDashboard /\ [][NextDashboard]_vars

\* C24: the dashboard only reads the result store: under any sequence of
\* dashboard interactions (load models, select model, edit, analyze, with the
\* comparison shown at the end of each rerun) evaluation_results.json is never
\* created, modified or deleted.
C24_DashboardOnlyReads == [][file' = file]_vars

\* an analysis is on display and the results file is still absent
C24_AnalyzedWithoutFile ==
  /\ ~file.exists
  /\ ui.displayed # NoResult
  /\ Cardinality(ui.models) > 1

\* C29: an analysis result is displayed only if last_result was produced by
\* analyzing exactly the current stripped input text; a prediction that returns
\* ERROR clears last_result; analyzing blank input, or having no loaded model,
\* never stores a result.
C29_DisplayedResultIsCurrent ==
  [][/\ ui'.displayed # NoResult =>
          /\ ui'.displayed = ui'.last_result
          /\ ui'.last_result.text = strip(ui'.user_input)
     /\ ui'.last_result # ui.last_result =>
          \/ ui'.analyzed = "ERROR" /\ ui'.last_result = NoResult
          \/ /\ ui'.analyzed \in {"HAM", "SPAM"}
             /\ ui'.last_result =
                  [result |-> ui'.analyzed, text |-> strip(ui'.user_input),
                   model |-> selected_model_of(ui'.models, ui'.choice)]
     /\ ui'.analyzed = "ERROR" => ui'.last_result = NoResult
     /\ (UiAnalyze /\ strip(ui.user_input) = <<>>) => ui'.last_result = ui.last_result
     /\ ui'.models = {} => ui'.last_result = NoResult]_vars

\* a stored result is kept but not shown, because the text has been edited
\* since it was analyzed
C29_StaleResultHidden ==
  /\ ui.last_result # NoResult
  /\ ui.displayed = NoResult
  /\ strip(ui.user_input) # <<>>
  /\ strip(ui.user_input) # ui.last_result.text

\* the top-level precision and recall of a comparison entry are the unweighted
\* means of the per-class values in the metrics dict they were taken from
IsMeanOfClasses(entry, metrics) ==
  /\ 2 * entry.v.precision.v = metrics.v.precision_ham.v + metrics.v.precision_spam.v
  /\ 2 * entry.v.recall.v = metrics.v.recall_ham.v + metrics.v.recall_spam.v

\* C25: in every comparison record the code produces, the top-level precision
\* and recall of each model are the unweighted mean of that model's per-class
\* (ham, spam) precision and recall.
C25_TopLevelIsClassMean ==
  /\ Compared =>
       /\ IsMeanOfClasses(comparison.v.baseline, baseline_metrics)
       /\ IsMeanOfClasses(comparison.v.distilbert, distilbert_metrics)
  /\ BaseCompared =>
       IsMeanOfClasses(BaseComparison.baseline, b_results.v.baseline_metrics)

\* C22: an error raised while a classifier is loaded or evaluated is not
\* swallowed: run_full_evaluation ends either with its result persisted or
\* with an exception raised to its caller, never by returning normally
\* without a result.
C22_RunCompletesOrRaises ==
  RunEnded => pc \in {"persisted", "raised"}

\* ------------------------------------------------ classifier object lifecycle
\* BaselineModel and DistilBERTModel: one object, the files its model is
\* saved in, and the method calls made on it

\* calls made on one object
MaxMethodCalls == 3

Kinds == {"baseline", "distilbert"}

\* __init__: self.vectorizer / self.tokenizer = None, self.model = None,
\* self.is_trained = False (the attribute the class does not have stays "None")
new_object ==
  [model |-> "None", vectorizer |-> "None", tokenizer |-> "None",
   is_trained |-> FALSE]

\* model_path.exists(), vectorizer_path.exists() / tokenizer_path.exists()
FileStates == [model_path : BOOLEAN, aux_path : BOOLEAN]

\* a method call has returned, or raised the named exception
MethodReturned(self, files) == [self |-> self, files |-> files, raised |-> ""]
MethodRaised(self, files, e) == [self |-> self, files |-> files, raised |-> e]

\* the statements of each method that can raise for reasons outside the
\* object: "none" is the call in which none of them does
TrainFaults(kind) ==
  IF kind = "baseline" THEN {"none", "fit_transform", "fit", "f1_score"}
  ELSE {"none", "from_pretrained", "trainer_train", "trainer_evaluate"}
UseFaults == {"none", "raises"}
LoadFaults == {"none", "first_load", "second_load"}

\* BaselineModel.train: the vectorizer is created and fitted, the model is
\* created and fitted, the training f1 computed, and only then is_trained set
BaselineModel_train(self, files, fault) ==
  CASE fault = "fit_transform" ->
         MethodRaised([self EXCEPT !.vectorizer = "unfitted"], files, "Exception")
    [] fault = "fit" ->
         MethodRaised([self EXCEPT !.vectorizer = "fitted", !.model = "unfitted"],
                      files, "Exception")
    [] fault = "f1_score" ->
         MethodRaised([self EXCEPT !.vectorizer = "fitted", !.model = "fitted"],
                      files, "Exception")
    [] OTHER ->
         MethodReturned([self EXCEPT !.vectorizer = "fitted", !.model = "fitted",
                                     !.is_trained = TRUE], files)

\* DistilBERTModel.setup_model_and_tokenizer: the tokenizer is assigned
\* before the model is loaded
setup_model_and_tokenizer(self, fault) ==
  IF fault = "from_pretrained" THEN [self EXCEPT !.tokenizer = "pretrained"]
  ELSE [self EXCEPT !.tokenizer = "pretrained", !.model = "pretrained"]

\* DistilBERTModel.train: is_trained is set right after trainer.train(),
\* before the evaluation on the training set and the log line that follow
DistilBERTModel_train(self, files, fault) ==
  LET needs_setup == self.tokenizer = "None" \/ self.model = "None"
      ready == IF needs_setup THEN setup_model_and_tokenizer(self, fault) ELSE self
  IN CASE fault = "from_pretrained" /\ needs_setup ->
            MethodRaised(ready, files, "Exception")
       [] fault = "trainer_train" ->
            MethodRaised([ready EXCEPT !.model = "fine_tuning"], files, "Exception")
       [] fault = "trainer_evaluate" ->
            MethodRaised([ready EXCEPT !.model = "fine_tuned", !.is_trained = TRUE],
                         files, "Exception")
       [] OTHER ->
            MethodReturned([ready EXCEPT !.model = "fine_tuned", !.is_trained = TRUE],
                           files)

Model_train(kind, self, files, fault) ==
  IF kind = "baseline" THEN BaselineModel_train(self, files, fault)
  ELSE DistilBERTModel_train(self, files, fault)

\* predict of either class: `if not self.is_trained: raise ValueError(...)`
\* is its first statement, the rest reads the object
Model_predict(self, files, fault) ==
  IF ~self.is_trained THEN MethodRaised(self, files, "ValueError")
  ELSE IF fault = "raises" THEN MethodRaised(self, files, "Exception")
  ELSE MethodReturned(self, files)

\* evaluate of either class: the same guard, then predict and the metrics
Model_evaluate(self, files, fault) ==
  IF ~self.is_trained THEN MethodRaised(self, files, "ValueError")
  ELSE Model_predict(self, files, fault)

\* save_model of either class: the same guard, then the model is written and
\* after it the vectorizer / tokenizer
Model_save_model(self, files, fault) ==
  IF ~self.is_trained THEN MethodRaised(self, files, "ValueError")
  ELSE IF fault = "raises"
       THEN MethodRaised(self, [files EXCEPT !.model_path = TRUE], "Exception")
  ELSE MethodReturned(self, [model_path |-> TRUE, aux_path |-> TRUE])

\* load_model: both paths are checked before anything is assigned;
\* BaselineModel loads the model and then the vectorizer, DistilBERTModel the
\* tokenizer and then the model; is_trained is set last
Model_load_model(kind, self, files, fault) ==
  IF ~files.model_path \/ ~files.aux_path
  THEN MethodRaised(self, files, "FileNotFoundError")
  ELSE CASE fault = "first_load" -> MethodRaised(self, files, "Exception")
         [] fault = "second_load" ->
              MethodRaised(IF kind = "baseline" THEN [self EXCEPT !.model = "loaded"]
                           ELSE [self EXCEPT !.tokenizer = "loaded"],
                           files, "Exception")
         [] OTHER ->
              MethodReturned(IF kind = "baseline"
                             THEN [self EXCEPT !.model = "loaded", !.vectorizer = "loaded",
                                               !.is_trained = TRUE]
                             ELSE [self EXCEPT !.model = "loaded", !.tokenizer = "loaded",
                                               !.is_trained = TRUE],
                             files)

\* obj after a call of `method` with result r; trained and loaded remember
\* that a train call has returned and that a load_model call has returned
obj_after(o, method, r) ==
  [o EXCEPT !.self = r.self,
            !.files = r.files,
            !.calls = @ + 1,
            !.trained = @ \/ (method = "train" /\ r.raised = ""),
            !.loaded = @ \/ (method = "load_model" /\ r.raised = ""),
            !.last = [method |-> method, raised |-> r.raised, before |-> o.self]]

InitLifecycle ==
  /\ ScriptsIdle
  /\ svc = NotStarted
  /\ calc = NotStarted
  /\ txt = NotStarted
  /\ split = NotStarted
  /\ ui = NotStarted
  /\ \E kind \in Kinds, files \in FileStates :
       obj = [kind |-> kind, self |-> new_object, files |-> files, calls |-> 0,
              trained |-> FALSE, loaded |-> FALSE,
              last |-> [method |-> "", raised |-> "", before |-> new_object]]

lifecycleFrame == <<scriptVars, svc, calc, txt, split, ui>>

Train ==
  /\ obj.calls < MaxMethodCalls
  /\ \E fault \in TrainFaults(obj.kind) :
       obj' = obj_after(obj, "train", Model_train(obj.kind, obj.self, obj.files, fault))
  /\ UNCHANGED lifecycleFrame

LoadModel ==
  /\ obj.calls < MaxMethodCalls
  /\ \E fault \in LoadFaults :
       obj' = obj_after(obj, "load_model",
                        Model_load_model(obj.kind, obj.self, obj.files, fault))
  /\ UNCHANGED lifecycleFrame

Predict ==
  /\ obj.calls < MaxMethodCalls
  /\ \E fault \in UseFaults :
       obj' = obj_after(obj, "predict", Model_predict(obj.self, obj.files, fault))
  /\ UNCHANGED lifecycleFrame

Evaluate ==
  /\ obj.calls < MaxMethodCalls
  /\ \E fault \in UseFaults :
       obj' = obj_after(obj, "evaluate", Model_evaluate(obj.self, obj.files, fault))
  /\ UNCHANGED lifecycleFrame

SaveModel ==
  /\ obj.calls < MaxMethodCalls
  /\ \E fault \in UseFaults :
       obj' = obj_after(obj, "save_model", Model_save_model(obj.self, obj.files, fault))
  /\ UNCHANGED lifecycleFrame

NextLifecycle ==
  \/ Train
  \/ LoadModel
  \/ Predict
  \/ Evaluate
  \/ SaveModel

SpecLifecycle == InitLifecycle /\ [][NextLifecycle]_vars

\* the last call was one of the three methods that need a trained model
UsedModel == obj.last.method \in {"predict", "evaluate", "save_model"}

\* some earlier train call completed or some earlier load_model call succeeded
MadeReady == obj.trained \/ obj.loaded

\* C26: predict, evaluate and save_model succeed only if an earlier train
\* completed or an earlier load_model succeeded; in every other state they
\* raise ValueError and leave model, vectorizer / tokenizer and is_trained
\* as they were; a load_model that fails on a missing file leaves is_trained
\* false.
C26_UseOnlyAfterTrainOrLoad ==
  /\ (UsedModel /\ obj.last.raised = "") => MadeReady
  /\ (UsedModel /\ ~MadeReady) =>
       /\ obj.last.raised = "ValueError"
       /\ obj.self = obj.last.before
  /\ (obj.last.method = "load_model" /\ obj.last.raised = "FileNotFoundError"
        /\ ~MadeReady) =>
       ~obj.self.is_trained

====
